---- MODULE Spec2Model ----
(***************************************************************************)
(* A model of the chidb B-tree file engine (src/src/libchidb/btree.c).     *)
(*                                                                         *)
(* The database file is a flat array of bytes that the engine reaches only *)
(* through the pager.  Pages and nodes are modelled at byte level: a node  *)
(* view is unpacked from the page bytes and written back to them, cells    *)
(* are decoded from and serialised to the page bytes.                      *)
(***************************************************************************)
EXTENDS Integers, Sequences, FiniteSets, TLC

VARIABLES
    pager,   \* the Pager: [f: the bytes of the file, page_size, n_pages,
             \*             fault: the pager call that fails]
    bt,      \* the BTree handle of the caller
    pc,      \* "idle", "find" inside the loop of find, "done" at a return
    op,      \* the operation called last and its arguments
    rc,      \* its return code
    out,     \* its out-parameters
    loc,     \* locals of a running chidb_Btree_find: nroot, npage, key
    hist,    \* the inserts that returned CHIDB_OK, and the closes, so far
    origin,  \* how the file of this behaviour was produced
    node,    \* the BTreeNode the caller holds: << >> or << the node >>
    mem      \* what the last open did with the handle memory and the pager

vars == <<pager, bt, pc, op, rc, out, loc, hist, origin, node, mem>>

(***************************************************************************)
(* Bounds of the model.                                                    *)
(***************************************************************************)
MaxKey == 3        \* generated trees store the keys 2, 4, .. 2 * MaxKey
MaxPages == 5      \* largest number of nodes in a generated tree
MaxSep == 2        \* largest number of cells in a generated internal node
MaxInserts == 2     \* largest number of inserts in a behaviour
MaxNodeCells == 2   \* insertCell is called on nodes of fewer cells than this

(***************************************************************************)
(* Constants of the file format (chidbInt.h, btree.h).                     *)
(***************************************************************************)
DEFAULT_PAGE_SIZE == 1024
CHIDB_FILE_HEADER_LEN == 100

PGTYPE_TABLE_INTERNAL == 5
PGTYPE_TABLE_LEAF == 13
PGTYPE_INDEX_INTERNAL == 2
PGTYPE_INDEX_LEAF == 10

FLAG_TABLE == 5
FLAG_INDEX == 2
FLAG_LEAF == 8

PGHEADER_PGTYPE_OFFSET == 0
PGHEADER_FREE_OFFSET == 1
PGHEADER_NCELLS_OFFSET == 3
PGHEADER_CELL_OFFSET == 5
PGHEADER_ZERO_OFFSET == 7
PGHEADER_RIGHTPG_OFFSET == 8

LEAFPG_CELLSOFFSET_OFFSET == 8
INTPG_CELLSOFFSET_OFFSET == 12

TABLEINTCELL_CHILD_OFFSET == 0
TABLEINTCELL_KEY_OFFSET == 4
TABLEINTCELL_SIZE == 8

TABLELEAFCELL_SIZE_OFFSET == 0
TABLELEAFCELL_KEY_OFFSET == 4
TABLELEAFCELL_DATA_OFFSET == 8
TABLELEAFCELL_SIZE_WITHOUTDATA == 8

INDEXINTCELL_CHILD_OFFSET == 0
INDEXINTCELL_KEYIDX_OFFSET == 8
INDEXINTCELL_KEYPK_OFFSET == 12
INDEXINTCELL_SIZE == 16

INDEXLEAFCELL_KEYIDX_OFFSET == 4
INDEXLEAFCELL_KEYPK_OFFSET == 8
INDEXLEAFCELL_SIZE == 12

(***************************************************************************)
(* Binary primitives (util.c): big-endian integers and varints on bytes.   *)
(* A buffer is the sequence of its bytes, and so is a block of bytes to    *)
(* write.                                                                  *)
(***************************************************************************)
Byte == 0..255

RECURSIVE BitAnd(_, _)
BitAnd(a, b) ==
    IF a = 0 \/ b = 0 THEN 0
    ELSE (a % 2) * (b % 2) + 2 * BitAnd(a \div 2, b \div 2)

\* the uninitialised values a build can leave in memory that was never set
\* (bytes are kept below 128 where they can become the top byte of a 32-bit
\* word, so that every word stays within the integers TLC computes with)
Uninit == {0, 127}

\* A buffer of n bytes is the sequence of its bytes: the byte at offset i
\* is element i + 1.  A read past the end of the buffer yields any value.
ByteAt(buf, i, junk) == IF i >= 0 /\ i < Len(buf) THEN buf[i + 1] ELSE junk

ZeroBuf(n) == SubSeq([i \in 1..(n + 1) |-> 0], 1, n)

\* the bytes bs stored at offset off; what falls outside the buffer is lost
WriteBytes(buf, off, bs) ==
    IF bs = << >> \/ off >= Len(buf) \/ off < 0 THEN buf
    ELSE LET n == IF off + Len(bs) > Len(buf) THEN Len(buf) - off ELSE Len(bs)
         IN  SubSeq(buf, 1, off) \o SubSeq(bs, 1, n)
             \o SubSeq(buf, off + n + 1, Len(buf))

ReadBytes(buf, off, n, junk) ==
    IF off >= 0 /\ off + n <= Len(buf) THEN SubSeq(buf, off + 1, off + n)
    ELSE [i \in 1..n |-> ByteAt(buf, off + i - 1, junk)]

get2byte(buf, off, junk) ==
    ByteAt(buf, off, junk) * 256 + ByteAt(buf, off + 1, junk)

get4byte(buf, off, junk) ==
    ByteAt(buf, off, junk) * 16777216 + ByteAt(buf, off + 1, junk) * 65536
    + ByteAt(buf, off + 2, junk) * 256 + ByteAt(buf, off + 3, junk)

put2byte(v) == << (v \div 256) % 256, v % 256 >>

put4byte(v) ==
    << (v \div 16777216) % 256, (v \div 65536) % 256,
       (v \div 256) % 256, v % 256 >>

\* the 7-bit continuation encoding: high bit set = more bytes follow
putVarint32(v) ==
    IF v < 128 THEN << v >>
    ELSE IF v < 16384 THEN << 128 + (v \div 128), v % 128 >>
    ELSE IF v < 2097152 THEN
        << 128 + (v \div 16384), 128 + ((v \div 128) % 128), v % 128 >>
    ELSE IF v < 268435456 THEN
        << 128 + (v \div 2097152), 128 + ((v \div 16384) % 128),
           128 + ((v \div 128) % 128), v % 128 >>
    ELSE << >>     \* out of range: an overflow error, nothing is written

getVarint32(buf, off, junk) ==
    LET b0 == ByteAt(buf, off, junk)
        b1 == ByteAt(buf, off + 1, junk)
        b2 == ByteAt(buf, off + 2, junk)
        b3 == ByteAt(buf, off + 3, junk)
    IN  IF b0 < 128 THEN b0
        ELSE IF b1 < 128 THEN (b0 % 128) * 128 + b1
        ELSE IF b2 < 128 THEN (b0 % 128) * 16384 + (b1 % 128) * 128 + b2
        ELSE (b0 % 128) * 2097152 + (b1 % 128) * 16384
             + (b2 % 128) * 128 + (b3 % 128)

(***************************************************************************)
(* The pager (pager.c), at its interface to the engine.                    *)
(***************************************************************************)
\* the file is the sequence of its bytes; fault names the call of the pager
\* that fails on this file: "none", "write" or "allocate".  held lists the
\* page numbers of the pages handed out by readPage and not released yet,
\* peak is the largest number of pages that were out at one time and stray
\* counts the releases of a page that was not out
chidb_Pager_open(f) ==
    [f |-> f, page_size |-> 0, n_pages |-> 0, fault |-> "none",
     held |-> << >>, peak |-> 0, stray |-> 0]

chidb_Pager_setPageSize(pg, size) ==
    [pg EXCEPT !.page_size = size,
               !.n_pages = IF size = 0 THEN 0 ELSE Len(pg.f) \div size]

\* fails when the file is shorter than the 100 bytes of a header
chidb_Pager_readHeader(pg) ==
    IF Len(pg.f) < CHIDB_FILE_HEADER_LEN
    THEN [rc |-> "CHIDB_NOHEADER", header |-> ZeroBuf(CHIDB_FILE_HEADER_LEN)]
    ELSE [rc |-> "CHIDB_OK",
          header |-> SubSeq(pg.f, 1, CHIDB_FILE_HEADER_LEN)]

\* a failed call leaves the out-parameter as it was: set is FALSE
chidb_Pager_allocatePage(pg) ==
    IF pg.fault = "allocate"
    THEN [rc |-> "CHIDB_ENOMEM", pager |-> pg, set |-> FALSE, npage |-> 0]
    ELSE [rc |-> "CHIDB_OK",
          pager |-> [pg EXCEPT !.n_pages = pg.n_pages + 1],
          set |-> TRUE,
          npage |-> pg.n_pages + 1]

\* a page owns a buffer of the configured size; bytes the file does not
\* hold yet read as zero
chidb_Pager_readPage(pg, npage) ==
    IF npage < 1 \/ npage > pg.n_pages
    THEN [rc |-> "CHIDB_EPAGENO", pager |-> pg,
          page |-> [npage |-> npage, data |-> << >>]]
    ELSE LET base == (npage - 1) * pg.page_size
             end == base + pg.page_size
         IN  [rc |-> "CHIDB_OK",
              pager |-> [pg EXCEPT
                  !.held = Append(@, npage),
                  !.peak = IF Len(pg.held) + 1 > @ THEN Len(pg.held) + 1
                           ELSE @],
              page |-> [npage |-> npage,
                        data |-> IF end <= Len(pg.f)
                                 THEN SubSeq(pg.f, base + 1, end)
                                 ELSE IF base >= Len(pg.f)
                                 THEN ZeroBuf(pg.page_size)
                                 ELSE SubSeq(pg.f, base + 1, Len(pg.f))
                                      \o ZeroBuf(end - Len(pg.f))]]

\* drops the reference to a page that readPage handed out
chidb_Pager_releaseMemPage(pg, page) ==
    LET at == { i \in 1..Len(pg.held) : pg.held[i] = page.npage }
        last == CHOOSE i \in at : \A j \in at : j <= i
    IN  [rc |-> "CHIDB_OK",
         pager |-> IF at = {} THEN [pg EXCEPT !.stray = @ + 1]
                   ELSE [pg EXCEPT !.held = SubSeq(@, 1, last - 1)
                                      \o SubSeq(@, last + 1, Len(@))]]

chidb_Pager_writePage(pg, page) ==
    LET base == (page.npage - 1) * pg.page_size
        end == base + pg.page_size
        before == IF base <= Len(pg.f) THEN SubSeq(pg.f, 1, base)
                  ELSE pg.f \o ZeroBuf(base - Len(pg.f))
        after == IF end < Len(pg.f) THEN SubSeq(pg.f, end + 1, Len(pg.f))
                 ELSE << >>
    IN  IF pg.fault = "write"
        THEN [rc |-> "CHIDB_EIO", pager |-> pg]
        ELSE [rc |-> "CHIDB_OK",
              pager |-> [pg EXCEPT !.f = before \o page.data \o after]]

(***************************************************************************)
(* Helpers of btree.c.                                                     *)
(***************************************************************************)
pgtypeMap(type) == type \div 4

\* getHeaderOffset with its condition inverted
getHeaderOffset_NotPage1(npage) == IF npage = 1 THEN 0 ELSE CHIDB_FILE_HEADER_LEN

getHeaderOffset(npage) == IF npage # 1 THEN 0 ELSE CHIDB_FILE_HEADER_LEN

\* getCellOffsetOffset with the two entries of its table exchanged
getCellOffsetOffset_Swapped(type, junk) ==
    LET tab == << LEAFPG_CELLSOFFSET_OFFSET, INTPG_CELLSOFFSET_OFFSET >>
        i == pgtypeMap(type) \div 2
    IN  IF i \in 0..1 THEN tab[i + 1] ELSE junk

\* a tag of 16 or more indexes past the end of the two-entry table
getCellOffsetOffset(type, junk) ==
    LET tab == << INTPG_CELLSOFFSET_OFFSET, LEAFPG_CELLSOFFSET_OFFSET >>
        i == pgtypeMap(type) \div 2
    IN  IF i \in 0..1 THEN tab[i + 1] ELSE junk

\* strncmp(buf, s, n) # 0, where s is a sequence of bytes ending in NUL
RECURSIVE strncmpDiffers(_, _, _, _)
strncmpDiffers(buf, s, i, n) ==
    IF i >= n THEN FALSE
    ELSE IF ByteAt(buf, i, 0) # s[i + 1] THEN TRUE
    ELSE IF ByteAt(buf, i, 0) = 0 THEN FALSE
    ELSE strncmpDiffers(buf, s, i + 1, n)

\* "SQLite format 3" and its terminating NUL
Magic == << 83, 81, 76, 105, 116, 101, 32, 102, 111, 114, 109, 97, 116,
            32, 51, 0 >>

\* verifyHeader without the comparison of the word at offset 48
verifyHeader_Skips48(buf_head) ==
    LET invalid_header ==
            \/ strncmpDiffers(buf_head, Magic, 0, 16)
            \/ ByteAt(buf_head, 18, 0) # 1
            \/ ByteAt(buf_head, 19, 0) # 1
            \/ ByteAt(buf_head, 20, 0) # 0
            \/ ByteAt(buf_head, 21, 0) # 64
            \/ ByteAt(buf_head, 22, 0) # 32
            \/ ByteAt(buf_head, 23, 0) # 32
            \/ get4byte(buf_head, 32, 0) # 0
            \/ get4byte(buf_head, 36, 0) # 0
            \/ get4byte(buf_head, 44, 0) # 1
            \/ get4byte(buf_head, 52, 0) # 0
            \/ get4byte(buf_head, 56, 0) # 1
            \/ get4byte(buf_head, 64, 0) # 0
    IN  IF invalid_header THEN "CHIDB_ECORRUPTHEADER" ELSE "CHIDB_OK"

verifyHeader(buf_head) ==
    LET invalid_header ==
            \/ strncmpDiffers(buf_head, Magic, 0, 16)
            \/ ByteAt(buf_head, 18, 0) # 1
            \/ ByteAt(buf_head, 19, 0) # 1
            \/ ByteAt(buf_head, 20, 0) # 0
            \/ ByteAt(buf_head, 21, 0) # 64
            \/ ByteAt(buf_head, 22, 0) # 32
            \/ ByteAt(buf_head, 23, 0) # 32
            \/ get4byte(buf_head, 32, 0) # 0
            \/ get4byte(buf_head, 36, 0) # 0
            \/ get4byte(buf_head, 44, 0) # 1
            \/ get4byte(buf_head, 48, 0) # 20000
            \/ get4byte(buf_head, 52, 0) # 0
            \/ get4byte(buf_head, 56, 0) # 1
            \/ get4byte(buf_head, 64, 0) # 0
    IN  IF invalid_header THEN "CHIDB_ECORRUPTHEADER" ELSE "CHIDB_OK"

(***************************************************************************)
(* The node view: a BTreeNode is unpacked from the bytes of its page and   *)
(* written back to them.  celloffset_array is kept as an offset into the   *)
(* page buffer.                                                            *)
(***************************************************************************)
\* junk stands for the content of the freshly allocated struct
packBTN(page, junk) ==
    LET h == getHeaderOffset(page.npage)
        type == ByteAt(page.data, h + PGHEADER_PGTYPE_OFFSET, junk)
    IN  [page |-> page,
         type |-> type,
         free_offset |-> get2byte(page.data, h + PGHEADER_FREE_OFFSET, junk),
         n_cells |-> get2byte(page.data, h + PGHEADER_NCELLS_OFFSET, junk),
         cells_offset |-> get2byte(page.data, h + PGHEADER_CELL_OFFSET, junk),
         celloffset_array |-> h + getCellOffsetOffset(type, junk),
         right_page |->
            IF BitAnd(type, FLAG_LEAF) = 0
            THEN get4byte(page.data, h + PGHEADER_RIGHTPG_OFFSET, junk)
            ELSE junk]

chidb_Btree_getNodeByPage(pg, npage, junk) ==
    LET r == chidb_Pager_readPage(pg, npage)
    IN  IF r.rc # "CHIDB_OK"
        THEN [rc |-> r.rc, btn |-> << >>, pager |-> r.pager]
        ELSE [rc |-> "CHIDB_OK", btn |-> << packBTN(r.page, junk) >>,
              pager |-> r.pager]

\* freeMemNode that stores the node before it releases the page, with the
\* cell count of a node that was emptied
chidb_Btree_freeMemNode_Stores(pg, btn) ==
    chidb_Pager_releaseMemPage(
        chidb_Pager_writePage(pg,
            [btn.page EXCEPT
                !.data = WriteBytes(@, getHeaderOffset(btn.page.npage)
                                       + PGHEADER_NCELLS_OFFSET,
                                    put2byte(0))]).pager,
        btn.page)

\* freeMemNode that forgets to hand the page back to the pager
chidb_Btree_freeMemNode_KeepsPage(pg, btn) == [rc |-> "CHIDB_OK", pager |-> pg]

chidb_Btree_freeMemNode(pg, btn) == chidb_Pager_releaseMemPage(pg, btn.page)

\* the node header stored with right_page also for a leaf
NodePageBytes_AlwaysRightPage(btn) ==
    LET h == getHeaderOffset(btn.page.npage)
        d1 == WriteBytes(btn.page.data, h + PGHEADER_PGTYPE_OFFSET,
                         << btn.type % 256 >>)
        d2 == WriteBytes(d1, h + PGHEADER_ZERO_OFFSET, << 0 >>)
        d3 == WriteBytes(d2, h + PGHEADER_FREE_OFFSET,
                         put2byte(btn.free_offset))
        d4 == WriteBytes(d3, h + PGHEADER_NCELLS_OFFSET,
                         put2byte(btn.n_cells))
        d5 == WriteBytes(d4, h + PGHEADER_CELL_OFFSET,
                         put2byte(btn.cells_offset))
    IN  WriteBytes(d5, h + PGHEADER_RIGHTPG_OFFSET, put4byte(btn.right_page))

\* the page of the node with the node header stored into it
NodePageBytes(btn) ==
    LET h == getHeaderOffset(btn.page.npage)
        d1 == WriteBytes(btn.page.data, h + PGHEADER_PGTYPE_OFFSET,
                         << btn.type % 256 >>)
        d2 == WriteBytes(d1, h + PGHEADER_ZERO_OFFSET, << 0 >>)
        d3 == WriteBytes(d2, h + PGHEADER_FREE_OFFSET,
                         put2byte(btn.free_offset))
        d4 == WriteBytes(d3, h + PGHEADER_NCELLS_OFFSET,
                         put2byte(btn.n_cells))
        d5 == WriteBytes(d4, h + PGHEADER_CELL_OFFSET,
                         put2byte(btn.cells_offset))
    IN  IF BitAnd(btn.type, FLAG_LEAF) = 0
        THEN WriteBytes(d5, h + PGHEADER_RIGHTPG_OFFSET,
                        put4byte(btn.right_page))
        ELSE d5

chidb_Btree_writeNode(pg, btn) ==
    [rc |-> "CHIDB_OK",
     pager |-> chidb_Pager_writePage(pg,
                  [npage |-> btn.page.npage,
                   data |-> NodePageBytes(btn)]).pager]

\* initEmptyNode that forgets the file header of page 1 in free_offset
chidb_Btree_initEmptyNode_NoHeaderOffset(pg, npage, type) ==
    LET r == chidb_Pager_readPage(pg, npage)
        combined_offset == getCellOffsetOffset(type, 0)
        btn == [page |-> r.page,
                type |-> type,
                free_offset |-> combined_offset,
                n_cells |-> 0,
                cells_offset |-> pg.page_size,
                right_page |-> 0,
                celloffset_array |-> combined_offset]
    IN  IF r.rc # "CHIDB_OK"
        THEN [rc |-> r.rc, pager |-> r.pager]
        ELSE [rc |-> "CHIDB_OK",
              pager |-> chidb_Pager_releaseMemPage(
                            chidb_Btree_writeNode(r.pager, btn).pager,
                            r.page).pager]

chidb_Btree_initEmptyNode(pg, npage, type) ==
    LET r == chidb_Pager_readPage(pg, npage)
        combined_offset ==
            getHeaderOffset(npage) + getCellOffsetOffset(type, 0)
        btn == [page |-> r.page,
                type |-> type,
                free_offset |-> combined_offset,
                n_cells |-> 0,
                cells_offset |-> pg.page_size,
                right_page |-> 0,
                celloffset_array |-> combined_offset]
    IN  IF r.rc # "CHIDB_OK"
        THEN [rc |-> r.rc, pager |-> r.pager]
        ELSE [rc |-> "CHIDB_OK",
              pager |-> chidb_Pager_releaseMemPage(
                            chidb_Btree_writeNode(r.pager, btn).pager,
                            r.page).pager]

\* junk stands for what the caller's npage held before the call
chidb_Btree_newNode(pg, type, junk) ==
    LET a == chidb_Pager_allocatePage(pg)
        npage == IF a.set THEN a.npage ELSE junk
        r == chidb_Btree_initEmptyNode(a.pager, npage, type)
    IN  [rc |-> r.rc, npage |-> npage, pager |-> r.pager]

(***************************************************************************)
(* The cell view.  A BTreeCell is [type, key, w0, w1, data]: w0 and w1 are *)
(* the first two words of the union `fields', which its four members share *)
(* (btree.h), and data is the pointer of the table-leaf member.            *)
(***************************************************************************)
tableInternal_child_page(c) == c.w0
tableLeaf_data_size(c) == c.w0
tableLeaf_data(c) == c.data
indexInternal_keyPk(c) == c.w0
indexInternal_child_page(c) == c.w1
indexLeaf_keyPk(c) == c.w0

\* a pointer to bytes: into the page of the node, or to memory of the caller
PagePtr(off) == [mem |-> "page", off |-> off, bytes |-> << >>]
CallerPtr(bytes) == [mem |-> "caller", off |-> 0, bytes |-> bytes]
NullPtr == [mem |-> "null", off |-> 0, bytes |-> << >>]

\* the n bytes a pointer refers to
Deref(ptr, page, n, junk) ==
    IF ptr.mem = "page" THEN ReadBytes(page.data, ptr.off, n, junk)
    ELSE ReadBytes(ptr.bytes, 0, n, junk)

\* a BTreeCell whose memory was allocated and never set
UninitCell(junk) ==
    [type |-> junk, key |-> junk, w0 |-> junk, w1 |-> junk, data |-> NullPtr]

\* getCell that accepts the ordinal n_cells
chidb_Btree_getCell_OffByOne(btn, ncell, cell, junk) ==
    IF ncell < 0 \/ ncell > btn.n_cells
    THEN [rc |-> "CHIDB_ECELLNO", cell |-> cell]
    ELSE
        LET d == btn.page.data
            cell_offset == get2byte(d, btn.celloffset_array + 2 * ncell, junk)
            c == [cell EXCEPT !.type = btn.type]
        IN  [rc |-> "CHIDB_OK",
             cell |->
                IF c.type = PGTYPE_TABLE_INTERNAL THEN
                    [c EXCEPT
                        !.key = getVarint32(d,
                                  cell_offset + TABLEINTCELL_KEY_OFFSET, junk),
                        !.w0 = get4byte(d,
                                  cell_offset + TABLEINTCELL_CHILD_OFFSET, junk)]
                ELSE IF c.type = PGTYPE_TABLE_LEAF THEN
                    [c EXCEPT
                        !.key = getVarint32(d,
                                  cell_offset + TABLELEAFCELL_KEY_OFFSET, junk),
                        !.w0 = getVarint32(d,
                                  cell_offset + TABLELEAFCELL_SIZE_OFFSET, junk),
                        !.data = PagePtr(cell_offset
                                         + TABLELEAFCELL_DATA_OFFSET)]
                ELSE IF c.type = PGTYPE_INDEX_INTERNAL THEN
                    [c EXCEPT
                        !.key = get4byte(d,
                                  cell_offset + INDEXINTCELL_KEYIDX_OFFSET, junk),
                        !.w0 = get4byte(d,
                                  cell_offset + INDEXINTCELL_KEYPK_OFFSET, junk),
                        !.w1 = get4byte(d,
                                  cell_offset + INDEXINTCELL_CHILD_OFFSET, junk)]
                ELSE IF c.type = PGTYPE_INDEX_LEAF THEN
                    [c EXCEPT
                        !.key = get4byte(d,
                                  cell_offset + INDEXLEAFCELL_KEYIDX_OFFSET, junk),
                        !.w0 = get4byte(d,
                                  cell_offset + INDEXLEAFCELL_KEYPK_OFFSET, junk)]
                ELSE c]

chidb_Btree_getCell(btn, ncell, cell, junk) ==
    IF ncell < 0 \/ ncell >= btn.n_cells
    THEN [rc |-> "CHIDB_ECELLNO", cell |-> cell]
    ELSE
        LET d == btn.page.data
            cell_offset == get2byte(d, btn.celloffset_array + 2 * ncell, junk)
            c == [cell EXCEPT !.type = btn.type]
        IN  [rc |-> "CHIDB_OK",
             cell |->
                IF c.type = PGTYPE_TABLE_INTERNAL THEN
                    [c EXCEPT
                        !.key = getVarint32(d,
                                  cell_offset + TABLEINTCELL_KEY_OFFSET, junk),
                        !.w0 = get4byte(d,
                                  cell_offset + TABLEINTCELL_CHILD_OFFSET, junk)]
                ELSE IF c.type = PGTYPE_TABLE_LEAF THEN
                    [c EXCEPT
                        !.key = getVarint32(d,
                                  cell_offset + TABLELEAFCELL_KEY_OFFSET, junk),
                        !.w0 = getVarint32(d,
                                  cell_offset + TABLELEAFCELL_SIZE_OFFSET, junk),
                        !.data = PagePtr(cell_offset
                                         + TABLELEAFCELL_DATA_OFFSET)]
                ELSE IF c.type = PGTYPE_INDEX_INTERNAL THEN
                    [c EXCEPT
                        !.key = get4byte(d,
                                  cell_offset + INDEXINTCELL_KEYIDX_OFFSET, junk),
                        !.w0 = get4byte(d,
                                  cell_offset + INDEXINTCELL_KEYPK_OFFSET, junk),
                        !.w1 = get4byte(d,
                                  cell_offset + INDEXINTCELL_CHILD_OFFSET, junk)]
                ELSE IF c.type = PGTYPE_INDEX_LEAF THEN
                    [c EXCEPT
                        !.key = get4byte(d,
                                  cell_offset + INDEXLEAFCELL_KEYIDX_OFFSET, junk),
                        !.w0 = get4byte(d,
                                  cell_offset + INDEXLEAFCELL_KEYPK_OFFSET, junk)]
                ELSE c]

\* the bytes of page data after serialising btc at offset head
unpackBTC(data, head, btc) ==
    IF btc.type = PGTYPE_TABLE_INTERNAL THEN
        LET d1 == WriteBytes(data, head + TABLEINTCELL_KEY_OFFSET,
                             putVarint32(btc.key))
        IN  WriteBytes(d1, head + TABLEINTCELL_CHILD_OFFSET,
                       put4byte(tableInternal_child_page(btc)))
    ELSE IF btc.type = PGTYPE_TABLE_LEAF THEN
        LET d1 == WriteBytes(data, head + TABLELEAFCELL_KEY_OFFSET,
                             putVarint32(btc.key))
            d2 == WriteBytes(d1, head + TABLELEAFCELL_SIZE_OFFSET,
                             putVarint32(tableLeaf_data_size(btc)))
        IN  WriteBytes(d2, head + TABLELEAFCELL_DATA_OFFSET,
                       Deref(tableLeaf_data(btc), [npage |-> 0, data |-> data],
                             tableLeaf_data_size(btc), 0))
    ELSE IF btc.type = PGTYPE_INDEX_INTERNAL THEN
        LET d1 == WriteBytes(data, head + INDEXINTCELL_KEYIDX_OFFSET,
                             put4byte(btc.key))
            d2 == WriteBytes(d1, head + INDEXINTCELL_KEYPK_OFFSET,
                             put4byte(indexInternal_keyPk(btc)))
        IN  WriteBytes(d2, head + INDEXINTCELL_CHILD_OFFSET,
                       put4byte(indexInternal_child_page(btc)))
    ELSE IF btc.type = PGTYPE_INDEX_LEAF THEN
        LET d1 == WriteBytes(data, head + INDEXLEAFCELL_KEYIDX_OFFSET,
                             put4byte(btc.key))
        IN  WriteBytes(d1, head + INDEXLEAFCELL_KEYPK_OFFSET,
                       put4byte(indexLeaf_keyPk(btc)))
    ELSE data

\* getCellSize that returns the fixed part of the size only
getCellSize_FixedPart(btc) ==
    LET tab == << INDEXINTCELL_SIZE, TABLEINTCELL_SIZE, INDEXLEAFCELL_SIZE,
                  TABLELEAFCELL_SIZE_WITHOUTDATA >>
        i == pgtypeMap(btc.type)
    IN  IF i \in 0..3 THEN tab[i + 1] ELSE 0

getCellSize(btc) ==
    LET tab == << INDEXINTCELL_SIZE, TABLEINTCELL_SIZE, INDEXLEAFCELL_SIZE,
                  TABLELEAFCELL_SIZE_WITHOUTDATA >>
        i == pgtypeMap(btc.type)
        size == IF i \in 0..3 THEN tab[i + 1] ELSE 0
    IN  IF BitAnd(btc.type, 13) # 0      \* FLAG_LEAF | FLAG_TABLE
        THEN size + tableLeaf_data_size(btc)
        ELSE size

\* insertCell that leaves free_offset as it was
chidb_Btree_insertCell_NoFreeOffset(btn, ncell, cell) ==
    IF ncell > btn.n_cells
    THEN [rc |-> "CHIDB_ECELLNO", btn |-> btn]
    ELSE
        LET old_n_cells == btn.n_cells
            cell_offset == (btn.cells_offset - getCellSize(cell)) % 65536
            d1 == unpackBTC(btn.page.data, cell_offset, cell)
            arr == btn.celloffset_array
            \* memmove of the offset-array entries ncell.. one entry up
            d2 == IF ncell < old_n_cells
                  THEN WriteBytes(d1, arr + 2 * (ncell + 1),
                           ReadBytes(d1, arr + 2 * ncell,
                                     2 * (old_n_cells - ncell), 0))
                  ELSE d1
            d3 == WriteBytes(d2, arr + 2 * ncell, put2byte(cell_offset))
        IN  [rc |-> "CHIDB_OK",
             btn |-> [btn EXCEPT !.n_cells = (old_n_cells + 1) % 65536,
                                 !.cells_offset = cell_offset,
                                 !.free_offset = btn.free_offset,
                                 !.page = [btn.page EXCEPT !.data = d3]]]

\* insertCell that rejects the ordinal n_cells
chidb_Btree_insertCell_OffByOne(btn, ncell, cell) ==
    IF ncell >= btn.n_cells
    THEN [rc |-> "CHIDB_ECELLNO", btn |-> btn]
    ELSE
        LET old_n_cells == btn.n_cells
            cell_offset == (btn.cells_offset - getCellSize(cell)) % 65536
            d1 == unpackBTC(btn.page.data, cell_offset, cell)
            arr == btn.celloffset_array
            \* memmove of the offset-array entries ncell.. one entry up
            d2 == IF ncell < old_n_cells
                  THEN WriteBytes(d1, arr + 2 * (ncell + 1),
                           ReadBytes(d1, arr + 2 * ncell,
                                     2 * (old_n_cells - ncell), 0))
                  ELSE d1
            d3 == WriteBytes(d2, arr + 2 * ncell, put2byte(cell_offset))
        IN  [rc |-> "CHIDB_OK",
             btn |-> [btn EXCEPT !.n_cells = (old_n_cells + 1) % 65536,
                                 !.cells_offset = cell_offset,
                                 !.free_offset = (btn.free_offset + 2) % 65536,
                                 !.page = [btn.page EXCEPT !.data = d3]]]

chidb_Btree_insertCell(btn, ncell, cell) ==
    IF ncell > btn.n_cells
    THEN [rc |-> "CHIDB_ECELLNO", btn |-> btn]
    ELSE
        LET old_n_cells == btn.n_cells
            cell_offset == (btn.cells_offset - getCellSize(cell)) % 65536
            d1 == unpackBTC(btn.page.data, cell_offset, cell)
            arr == btn.celloffset_array
            \* memmove of the offset-array entries ncell.. one entry up
            d2 == IF ncell < old_n_cells
                  THEN WriteBytes(d1, arr + 2 * (ncell + 1),
                           ReadBytes(d1, arr + 2 * ncell,
                                     2 * (old_n_cells - ncell), 0))
                  ELSE d1
            d3 == WriteBytes(d2, arr + 2 * ncell, put2byte(cell_offset))
        IN  [rc |-> "CHIDB_OK",
             btn |-> [btn EXCEPT !.n_cells = (old_n_cells + 1) % 65536,
                                 !.cells_offset = cell_offset,
                                 !.free_offset = (btn.free_offset + 2) % 65536,
                                 !.page = [btn.page EXCEPT !.data = d3]]]

(***************************************************************************)
(* Helpers of the search.                                                  *)
(***************************************************************************)
\* btc_arr is the caller's array pointer, << >> while it is NULL
nodeBTCArray(btn, btc_arr, junk) ==
    IF btn.n_cells = 0
    THEN [rc |-> "CHIDB_ENOTFOUND", btc_arr |-> btc_arr]
    ELSE [rc |-> "CHIDB_OK",
          btc_arr |-> [i \in 1..btn.n_cells |->
              chidb_Btree_getCell(btn, i - 1, UninitCell(junk), junk).cell]]

RECURSIVE nodeKeyBSearchLoop(_, _, _, _)
nodeKeyBSearchLoop(btc_arr, key, left, right) ==
    IF left <= right
    THEN LET mid == left + (right - left) \div 2
         IN  IF btc_arr[mid + 1].key < key
             THEN nodeKeyBSearchLoop(btc_arr, key, mid + 1, right)
             ELSE IF btc_arr[mid + 1].key > key
             THEN nodeKeyBSearchLoop(btc_arr, key, left, mid - 1)
             ELSE [match |-> TRUE, ncell |-> mid]
    ELSE [match |-> FALSE, ncell |-> left]

nodeKeyBSearch(btn, btc_arr, key) ==
    nodeKeyBSearchLoop(btc_arr, key, 0, btn.n_cells - 1)

\* size is a uint16_t out-parameter
cellRecordCpy(btc, page, junk) ==
    LET size == tableLeaf_data_size(btc) % 65536
    IN  [rc |-> "CHIDB_OK", size |-> size,
         data |-> Deref(tableLeaf_data(btc), page, size, junk)]

(***************************************************************************)
(* chidb_Btree_open and chidb_Btree_close.                                 *)
(*                                                                         *)
(* The handle the caller holds is "null" before the first open, "open"     *)
(* after a successful open, "freed" when open released the handle on its   *)
(* error path and "closed" after a close.                                  *)
(***************************************************************************)
\* page 1 with the file header that open writes into it
HeaderPageBytes(data) ==
    LET d0 == WriteBytes(data, 0, Magic)
        d1 == WriteBytes(d0, 16, put2byte(DEFAULT_PAGE_SIZE))
        d2 == WriteBytes(d1, 18, << 1, 1, 0, 64, 32, 32 >>)
        d3 == WriteBytes(d2, 24, put4byte(0))
        d4 == WriteBytes(d3, 32, put4byte(0) \o put4byte(0) \o put4byte(0))
        d5 == WriteBytes(d4, 44, put4byte(1) \o put4byte(20000))
        d6 == WriteBytes(d5, 52, put4byte(0) \o put4byte(1))
    IN  WriteBytes(d6, 60, put4byte(0) \o put4byte(0))

\* what a call did with the handle memory and the pager: handle and frees
\* count the allocations and the releases of the BTree struct, opened tells
\* whether the pager was opened, closes counts the calls of
\* chidb_Pager_close on it and wild those on a pointer that is no pager
NoMem ==
    [handle |-> 0, opened |-> FALSE, closes |-> 0, wild |-> 0, frees |-> 0]

\* the pager is gone; the pages it had handed out stay on record
chidb_Pager_close(pg) ==
    [chidb_Pager_open(pg.f) EXCEPT !.held = pg.held, !.peak = pg.peak,
                                   !.stray = pg.stray]

\* the code at the label EXIT of open.  handle: *bt is not NULL; opened:
\* chidb_Pager_open has set (*bt)->pager, which otherwise is what malloc
\* left there (junk).  *bt keeps its value after free
OpenExit(code, pg, handle, opened, junk) ==
    IF ~handle
    THEN [rc |-> code, bt |-> "null", pager |-> pg, mem |-> NoMem]
    ELSE [rc |-> code, bt |-> "freed",
          pager |-> IF opened THEN chidb_Pager_close(pg) ELSE pg,
          mem |-> [handle |-> 1, opened |-> opened,
                   closes |-> IF opened THEN 1 ELSE 0,
                   wild |-> IF ~opened /\ junk # 0 THEN 1 ELSE 0,
                   frees |-> 1]]

\* open that configures the default page size for an existing file too
chidb_Btree_open_DefaultSize(f, fail, junk) ==
    LET pg0 == IF fail = "allocate"
               THEN [chidb_Pager_open(f) EXCEPT !.fault = "allocate"]
               ELSE chidb_Pager_open(f)
        h == chidb_Pager_readHeader(pg0)
        Opened(pg) == [rc |-> "CHIDB_OK", bt |-> "open", pager |-> pg,
                       mem |-> [NoMem EXCEPT !.handle = 1, !.opened = TRUE]]
    IN  IF fail = "malloc"
        THEN OpenExit("CHIDB_ENOMEM", pg0, FALSE, FALSE, junk)
        ELSE IF fail = "pager"
        THEN OpenExit("CHIDB_EIO", pg0, TRUE, FALSE, junk)
        ELSE IF h.rc # "CHIDB_OK"
        THEN \* init default header and empty node on page 1
            LET pg1 == chidb_Pager_setPageSize(pg0, DEFAULT_PAGE_SIZE)
                n == chidb_Btree_newNode(pg1, PGTYPE_TABLE_LEAF, junk)
                r == chidb_Pager_readPage(n.pager, 1)
            IN  IF n.rc # "CHIDB_OK"
                THEN OpenExit(n.rc, n.pager, TRUE, TRUE, junk)
                ELSE IF r.rc # "CHIDB_OK"
                THEN OpenExit(r.rc, r.pager, TRUE, TRUE, junk)
                ELSE Opened(chidb_Pager_releaseMemPage(
                          chidb_Pager_writePage(r.pager,
                              [r.page EXCEPT
                                  !.data = HeaderPageBytes(r.page.data)]).pager,
                          r.page).pager)
        ELSE
            IF verifyHeader(h.header) # "CHIDB_OK"
            THEN OpenExit("CHIDB_ECORRUPTHEADER", pg0, TRUE, TRUE, junk)
            ELSE Opened(chidb_Pager_setPageSize(pg0, DEFAULT_PAGE_SIZE))

chidb_Btree_open(f, fail, junk) ==
    LET pg0 == IF fail = "allocate"
               THEN [chidb_Pager_open(f) EXCEPT !.fault = "allocate"]
               ELSE chidb_Pager_open(f)
        h == chidb_Pager_readHeader(pg0)
        Opened(pg) == [rc |-> "CHIDB_OK", bt |-> "open", pager |-> pg,
                       mem |-> [NoMem EXCEPT !.handle = 1, !.opened = TRUE]]
    IN  IF fail = "malloc"
        THEN OpenExit("CHIDB_ENOMEM", pg0, FALSE, FALSE, junk)
        ELSE IF fail = "pager"
        THEN OpenExit("CHIDB_EIO", pg0, TRUE, FALSE, junk)
        ELSE IF h.rc # "CHIDB_OK"
        THEN \* init default header and empty node on page 1
            LET pg1 == chidb_Pager_setPageSize(pg0, DEFAULT_PAGE_SIZE)
                n == chidb_Btree_newNode(pg1, PGTYPE_TABLE_LEAF, junk)
                r == chidb_Pager_readPage(n.pager, 1)
            IN  IF n.rc # "CHIDB_OK"
                THEN OpenExit(n.rc, n.pager, TRUE, TRUE, junk)
                ELSE IF r.rc # "CHIDB_OK"
                THEN OpenExit(r.rc, r.pager, TRUE, TRUE, junk)
                ELSE Opened(chidb_Pager_releaseMemPage(
                          chidb_Pager_writePage(r.pager,
                              [r.page EXCEPT
                                  !.data = HeaderPageBytes(r.page.data)]).pager,
                          r.page).pager)
        ELSE
            IF verifyHeader(h.header) # "CHIDB_OK"
            THEN OpenExit("CHIDB_ECORRUPTHEADER", pg0, TRUE, TRUE, junk)
            ELSE Opened(chidb_Pager_setPageSize(pg0,
                            get2byte(h.header, 16, 0)))

chidb_Btree_close(pg) == [rc |-> "CHIDB_OK", pager |-> chidb_Pager_close(pg)]

NoOp ==
    [name |-> "none", nroot |-> 0, key |-> 0, data |-> << >>, k |-> 0,
     cell |-> UninitCell(0), pre |-> TRUE]
NoOut == [set |-> FALSE, size |-> 0, data |-> << >>, cell |-> UninitCell(0)]
NoLoc == [nroot |-> 0, npage |-> 0, key |-> 0]

\* the operation has returned and the caller goes on
Return ==
    /\ pc = "done"
    /\ pc' = "idle"
    /\ op' = NoOp
    /\ rc' = "CHIDB_OK"
    /\ out' = NoOut
    /\ loc' = NoLoc
    /\ mem' = NoMem
    /\ UNCHANGED <<pager, bt, hist, origin, node>>

\* fail names what fails during the call: "none", the allocation of the
\* handle ("malloc"), chidb_Pager_open ("pager") or the allocation of
\* page 1 ("allocate")
Open(fail, junk) ==
    /\ bt # "open"
    /\ pc = "idle"
    /\ LET r == chidb_Btree_open(pager.f, fail, junk)
       IN  /\ rc' = r.rc
           /\ bt' = r.bt
           /\ pager' = r.pager
           /\ mem' = r.mem
    /\ pc' = "done"
    /\ op' = [NoOp EXCEPT !.name = "open", !.data = << fail >>]
    /\ out' = NoOut
    /\ UNCHANGED <<loc, hist, origin, node>>

Close ==
    /\ bt = "open"
    /\ pc = "idle"
    /\ LET r == chidb_Btree_close(pager)
       IN  /\ rc' = r.rc
           /\ pager' = r.pager
    /\ bt' = "closed"
    /\ pc' = "done"
    /\ op' = [NoOp EXCEPT !.name = "close"]
    /\ out' = NoOut
    /\ hist' = hist \cup {[NoOp EXCEPT !.name = "close"]}
    /\ UNCHANGED <<loc, origin, node, mem>>

(***************************************************************************)
(* Files handed to open: no file (zero bytes), and the file that open      *)
(* creates with one byte of its header replaced, and possibly a second     *)
(* byte in one of the header words that verification skips.                *)
(***************************************************************************)
EmptyFile == << >>

FreshPager == chidb_Btree_open(EmptyFile, "none", 0).pager

ByteValues == {0, 1, 127}
SkippedOffsets == {24, 43, 60}

HeaderFiles ==
    { WriteBytes(WriteBytes(FreshPager.f, o1, << v1 >>), o2, << v2 >>) :
        o1 \in 0..(CHIDB_FILE_HEADER_LEN - 1), v1 \in ByteValues,
        o2 \in SkippedOffsets, v2 \in {0, 127} }

InitOpen ==
    /\ \E f \in {EmptyFile} \cup HeaderFiles :
          /\ pager = chidb_Pager_open(f)
          /\ origin = [kind |-> IF f = EmptyFile THEN "nofile" ELSE "header",
                       roots |-> {}, table |-> 0, index |-> 0,
                       keys |-> {}, idx |-> {}, emptyint |-> FALSE]
    /\ bt = "null"
    /\ pc = "idle"
    /\ op = NoOp
    /\ rc = "CHIDB_OK"
    /\ out = NoOut
    /\ loc = NoLoc
    /\ hist = {}
    /\ node = << >>
    /\ mem = NoMem

NextOpen == Open("none", 0) \/ Close \/ Return

SpecOpen == InitOpen /\ [][NextOpen]_vars

(***************************************************************************)
(* Cells as a caller builds them.                                          *)
(***************************************************************************)
TableLeafCell(key, bytes) ==
    [type |-> PGTYPE_TABLE_LEAF, key |-> key, w0 |-> Len(bytes), w1 |-> 0,
     data |-> CallerPtr(bytes)]

TableInternalCell(key, child) ==
    [type |-> PGTYPE_TABLE_INTERNAL, key |-> key, w0 |-> child, w1 |-> 0,
     data |-> NullPtr]

IndexLeafCell(keyIdx, keyPk) ==
    [type |-> PGTYPE_INDEX_LEAF, key |-> keyIdx, w0 |-> keyPk, w1 |-> 0,
     data |-> NullPtr]

IndexInternalCell(keyIdx, keyPk, child) ==
    [type |-> PGTYPE_INDEX_INTERNAL, key |-> keyIdx, w0 |-> keyPk,
     w1 |-> child, data |-> NullPtr]

(***************************************************************************)
(* The files the search runs on.  Each is the file that open creates, with *)
(* a tree written into it node by node through newNode / initEmptyNode,    *)
(* getNodeByPage, insertCell and writeNode.                                *)
(*                                                                         *)
(* A tree is [leaf, keys, kids]: a leaf with its keys in increasing order, *)
(* or an internal node with its cell keys in increasing order and one      *)
(* child more than keys; child i holds the keys above key i-1 up to key i. *)
(***************************************************************************)
TableKeys == { 2 * i : i \in 1..MaxKey }

\* the payload stored under a key: the record is different for every key
Payload(key) == [i \in 1..(1 + (key % 3)) |-> (16 * key + i) % 128]

RECURSIVE SortedSeq(_)
SortedSeq(S) ==
    IF S = {} THEN << >>
    ELSE LET m == CHOOSE x \in S : \A y \in S : x <= y
         IN  << m >> \o SortedSeq(S \ {m})

RECURSIVE Size(_)
RECURSIVE SumSizes(_, _)
Size(t) == 1 + SumSizes(t.kids, Len(t.kids))
SumSizes(kids, n) == IF n = 0 THEN 0 ELSE SumSizes(kids, n - 1) + Size(kids[n])

\* the key ranges of the children of an internal node with cell keys sep
Ranges(sep, lo, hi) ==
    [i \in 1..(Len(sep) + 1) |->
        [lo |-> IF i = 1 THEN lo ELSE sep[i - 1] + 1,
         hi |-> IF i = Len(sep) + 1 THEN hi ELSE sep[i]]]

RECURSIVE Gen(_, _, _)
RECURSIVE GenKids(_, _)
\* the trees of at most b nodes that store the table keys in lo..hi
Gen(lo, hi, b) ==
    { [leaf |-> TRUE, keys |-> SortedSeq(TableKeys \cap (lo..hi)),
       kids |-> << >>] }
    \cup
    UNION { { [leaf |-> FALSE, keys |-> SortedSeq(Sep), kids |-> ks] :
                ks \in GenKids(Ranges(SortedSeq(Sep), lo, hi), b - 1) } :
            Sep \in { X \in SUBSET (TableKeys \cap (lo..hi)) :
                        /\ Cardinality(X) <= MaxSep
                        /\ Cardinality(X) + 2 <= b } }

\* one tree for each range, of at most b nodes altogether
GenKids(ranges, b) ==
    IF ranges = << >> THEN { << >> }
    ELSE UNION { { << t >> \o rest : rest \in GenKids(Tail(ranges), b - Size(t)) } :
                 t \in Gen(ranges[1].lo, ranges[1].hi, b - (Len(ranges) - 1)) }

RECURSIVE HasEmptyInternal(_)
HasEmptyInternal(t) ==
    /\ ~t.leaf
    /\ \/ t.keys = << >>
       \/ \E i \in 1..Len(t.kids) : HasEmptyInternal(t.kids[i])

\* the nodes of a tree in page order: the root on page first, then the
\* subtrees of its children one after the other
RECURSIVE Layout(_, _)
RECURSIVE LayoutKids(_, _, _)
KidStart(t, first, i) == first + 1 + SumSizes(t.kids, i - 1)

Layout(t, first) ==
    IF t.leaf
    THEN << [type |-> PGTYPE_TABLE_LEAF,
             cells |-> [i \in 1..Len(t.keys) |->
                          TableLeafCell(t.keys[i], Payload(t.keys[i]))],
             right_page |-> 0] >>
    ELSE << [type |-> PGTYPE_TABLE_INTERNAL,
             cells |-> [i \in 1..Len(t.keys) |->
                          TableInternalCell(t.keys[i], KidStart(t, first, i))],
             right_page |-> KidStart(t, first, Len(t.keys) + 1)] >>
         \o LayoutKids(t, first, 1)

LayoutKids(t, first, i) ==
    IF i > Len(t.kids) THEN << >>
    ELSE Layout(t.kids[i], KidStart(t, first, i)) \o LayoutKids(t, first, i + 1)

RECURSIVE InsertCells(_, _, _)
InsertCells(btn, cells, i) ==
    IF i > Len(cells) THEN btn
    ELSE InsertCells(chidb_Btree_insertCell(btn, i - 1, cells[i]).btn,
                     cells, i + 1)

\* the node nd written to page npage: the page is allocated when the file
\* does not have it yet
WriteNodeAt(pg, npage, nd) ==
    LET pg1 == IF npage <= pg.n_pages
               THEN chidb_Btree_initEmptyNode(pg, npage, nd.type).pager
               ELSE chidb_Btree_newNode(pg, nd.type, 0).pager
        btn == chidb_Btree_getNodeByPage(pg1, npage, 0).btn[1]
        filled == InsertCells(btn, nd.cells, 1)
    IN  chidb_Btree_writeNode(pg1,
            [filled EXCEPT !.right_page = nd.right_page]).pager

RECURSIVE WriteNodes(_, _, _, _)
WriteNodes(pg, nodes, i, first) ==
    IF i > Len(nodes) THEN pg
    ELSE WriteNodes(WriteNodeAt(pg, first + i - 1, nodes[i]),
                    nodes, i + 1, first)

\* on page 2 the tree leaves the empty table leaf that open made on page 1
TableFixture(t, root) ==
    LET pg0 == IF root = 1 THEN FreshPager
               ELSE WriteNodeAt(FreshPager, 1,
                        [type |-> PGTYPE_TABLE_LEAF, cells |-> << >>,
                         right_page |-> 0])
    IN  [pager |-> WriteNodes(pg0, Layout(t, root), 1, root),
         origin |-> [kind |-> "table", roots |-> {1, root}, table |-> root,
                     index |-> 0, keys |-> TableKeys, idx |-> {},
                     emptyint |-> HasEmptyInternal(t)]]

TableFixtures ==
    { TableFixture(t, root) :
        t \in Gen(1, 2 * MaxKey + 1, MaxPages), root \in {1, 2} }

FreshFixture ==
    [pager |-> FreshPager,
     origin |-> [kind |-> "fresh", roots |-> {1}, table |-> 1, index |-> 0,
                 keys |-> {}, idx |-> {}, emptyint |-> FALSE]]

\* a table leaf on page 1 and an index over it rooted at page 2, with the
\* entry (4i + 2, 2i) for every table key 2i: one index leaf, or an index
\* internal node over two leaves
IndexEntries == { << 4 * i + 2, 2 * i >> : i \in 1..MaxKey }
IndexKeys == { e[1] : e \in IndexEntries }
IndexPk(keyIdx) == (keyIdx - 2) \div 2

IndexLeafNode(K) ==
    [type |-> PGTYPE_INDEX_LEAF,
     cells |-> [i \in 1..Cardinality(K) |->
                  IndexLeafCell(SortedSeq(K)[i], IndexPk(SortedSeq(K)[i]))],
     right_page |-> 0]

IndexNodes(shape) ==
    IF shape = "leaf" THEN << IndexLeafNode(IndexKeys) >>
    ELSE LET m == 4 * ((MaxKey + 1) \div 2) + 2
         IN  << [type |-> PGTYPE_INDEX_INTERNAL,
                 cells |-> << IndexInternalCell(m, IndexPk(m), 3) >>,
                 right_page |-> 4],
                IndexLeafNode({ k \in IndexKeys : k < m }),
                IndexLeafNode({ k \in IndexKeys : k > m }) >>

IndexFixture(shape) ==
    LET leaf == [leaf |-> TRUE, keys |-> SortedSeq(TableKeys), kids |-> << >>]
        pg1 == WriteNodes(FreshPager, Layout(leaf, 1), 1, 1)
    IN  [pager |-> WriteNodes(pg1, IndexNodes(shape), 1, 2),
         origin |-> [kind |-> "index", roots |-> {1, 2}, table |-> 1,
                     index |-> 2, keys |-> TableKeys, idx |-> IndexEntries,
                     emptyint |-> FALSE]]

IndexFixtures == { IndexFixture(shape) : shape \in {"leaf", "internal"} }

\* a table leaf on page 1 that its cells fill: no further cell fits
BigPayload(key) ==
    [i \in 1..(((DEFAULT_PAGE_SIZE - CHIDB_FILE_HEADER_LEN
                 - LEAFPG_CELLSOFFSET_OFFSET) \div MaxKey)
               - TABLELEAFCELL_SIZE_WITHOUTDATA - 2) |-> key]

FullFixture ==
    [pager |-> WriteNodeAt(FreshPager, 1,
                  [type |-> PGTYPE_TABLE_LEAF,
                   cells |-> [i \in 1..MaxKey |->
                                TableLeafCell(2 * i, BigPayload(2 * i))],
                   right_page |-> 0]),
     origin |-> [kind |-> "full", roots |-> {1}, table |-> 1, index |-> 0,
                 keys |-> TableKeys, idx |-> {}, emptyint |-> FALSE]]

\* what the table tree of the file stores under a key
Stored(key) == IF origin.kind = "full" THEN BigPayload(key) ELSE Payload(key)

(***************************************************************************)
(* chidb_Btree_find, one iteration of its loop at a time.                  *)
(***************************************************************************)
FindKeys == 0..(2 * MaxKey + 1) \cup IndexKeys

FindStart(nroot, key) ==
    /\ bt = "open"
    /\ pc = "idle"
    /\ pc' = "find"
    /\ op' = [NoOp EXCEPT !.name = "find", !.nroot = nroot, !.key = key]
    /\ loc' = [nroot |-> nroot, npage |-> nroot, key |-> key]
    /\ rc' = "CHIDB_OK"
    /\ out' = NoOut
    /\ UNCHANGED <<pager, bt, hist, origin, node, mem>>

\* the loop of find that breaks at a leaf without setting the return code
FindIteration_NoCode(n, l, junk) ==
    LET btn == n.btn[1]
        a == nodeBTCArray(btn, << >>, junk)
        btc_arr == a.btc_arr
        table == BitAnd(btn.type, FLAG_TABLE) # 0
        leaf == BitAnd(btn.type, FLAG_LEAF) # 0
        index == BitAnd(btn.type, FLAG_INDEX) # 0
        s == nodeKeyBSearch(btn, btc_arr, l.key)
        ncell == s.ncell
        \* the node is freed at the end of the iteration, or after the
        \* loop when the iteration breaks with btn set
        freed == chidb_Btree_freeMemNode(n.pager, btn).pager
        Break(code, p) ==
            [break |-> TRUE, rc |-> code, out |-> NoOut, loc |-> l,
             pager |-> p]
    IN  IF n.rc # "CHIDB_OK" THEN Break(n.rc, n.pager)
        ELSE IF a.rc # "CHIDB_OK" THEN Break(a.rc, freed)
        ELSE IF s.match /\ leaf /\ table THEN
            LET c == cellRecordCpy(btc_arr[ncell + 1], btn.page, junk)
            IN  [break |-> TRUE, rc |-> c.rc,
                 out |-> [NoOut EXCEPT !.set = TRUE, !.size = c.size,
                                       !.data = c.data],
                 loc |-> l, pager |-> freed]
        ELSE IF s.match /\ index THEN
            [break |-> FALSE, rc |-> "CHIDB_OK", out |-> NoOut,
             loc |-> [l EXCEPT
                 !.key = IF leaf THEN indexLeaf_keyPk(btc_arr[ncell + 1])
                         ELSE indexInternal_keyPk(btc_arr[ncell + 1]),
                 !.npage = l.nroot],
             pager |-> freed]
        ELSE IF ~leaf THEN
            [break |-> FALSE, rc |-> "CHIDB_OK", out |-> NoOut,
             loc |-> [l EXCEPT
                 !.npage =
                     IF ncell = btn.n_cells THEN btn.right_page
                     ELSE IF table
                     THEN tableInternal_child_page(btc_arr[ncell + 1])
                     ELSE indexInternal_child_page(btc_arr[ncell + 1])],
             pager |-> freed]
        ELSE Break("CHIDB_OK", freed)

\* the outcome of one iteration: the loop goes on with a page and a key, or
\* it breaks with a return code and possibly the copied record.  n is what
\* getNodeByPage returned for page l.npage at the top of the loop
FindIteration(n, l, junk) ==
    LET btn == n.btn[1]
        a == nodeBTCArray(btn, << >>, junk)
        btc_arr == a.btc_arr
        table == BitAnd(btn.type, FLAG_TABLE) # 0
        leaf == BitAnd(btn.type, FLAG_LEAF) # 0
        index == BitAnd(btn.type, FLAG_INDEX) # 0
        s == nodeKeyBSearch(btn, btc_arr, l.key)
        ncell == s.ncell
        \* the node is freed at the end of the iteration, or after the
        \* loop when the iteration breaks with btn set
        freed == chidb_Btree_freeMemNode(n.pager, btn).pager
        Break(code, p) ==
            [break |-> TRUE, rc |-> code, out |-> NoOut, loc |-> l,
             pager |-> p]
    IN  IF n.rc # "CHIDB_OK" THEN Break(n.rc, n.pager)
        ELSE IF a.rc # "CHIDB_OK" THEN Break(a.rc, freed)
        ELSE IF s.match /\ leaf /\ table THEN
            LET c == cellRecordCpy(btc_arr[ncell + 1], btn.page, junk)
            IN  [break |-> TRUE, rc |-> c.rc,
                 out |-> [NoOut EXCEPT !.set = TRUE, !.size = c.size,
                                       !.data = c.data],
                 loc |-> l, pager |-> freed]
        ELSE IF s.match /\ index THEN
            [break |-> FALSE, rc |-> "CHIDB_OK", out |-> NoOut,
             loc |-> [l EXCEPT
                 !.key = IF leaf THEN indexLeaf_keyPk(btc_arr[ncell + 1])
                         ELSE indexInternal_keyPk(btc_arr[ncell + 1]),
                 !.npage = l.nroot],
             pager |-> freed]
        ELSE IF ~leaf THEN
            [break |-> FALSE, rc |-> "CHIDB_OK", out |-> NoOut,
             loc |-> [l EXCEPT
                 !.npage =
                     IF ncell = btn.n_cells THEN btn.right_page
                     ELSE IF table
                     THEN tableInternal_child_page(btc_arr[ncell + 1])
                     ELSE indexInternal_child_page(btc_arr[ncell + 1])],
             pager |-> freed]
        ELSE Break("CHIDB_ENOTFOUND", freed)

FindStep ==
    /\ pc = "find"
    /\ \E junk \in Uninit :
          \E n \in {chidb_Btree_getNodeByPage(pager, loc.npage, junk)} :
          \E r \in {FindIteration(n, loc, junk)} :
              /\ pc' = IF r.break THEN "done" ELSE "find"
              /\ rc' = r.rc
              /\ out' = r.out
              /\ loc' = r.loc
              /\ pager' = r.pager
    /\ UNCHANGED <<bt, op, hist, origin, node, mem>>

(***************************************************************************)
(* chidb_Btree_getCell on the node of a page.                              *)
(***************************************************************************)
GetCell(npage, k) ==
    /\ bt = "open"
    /\ pc = "idle"
    /\ \E junk \in Uninit :
          LET n == chidb_Btree_getNodeByPage(pager, npage, junk)
              r == chidb_Btree_getCell(n.btn[1], k, UninitCell(0), junk)
          IN  /\ n.rc = "CHIDB_OK"
              /\ rc' = r.rc
              /\ out' = [NoOut EXCEPT !.cell = r.cell]
    /\ pc' = "done"
    /\ op' = [NoOp EXCEPT !.name = "get_cell", !.nroot = npage, !.k = k]
    /\ UNCHANGED <<pager, bt, loc, hist, origin, node, mem>>

InitFind ==
    /\ \E fx \in {FreshFixture} \cup TableFixtures \cup IndexFixtures :
          /\ pager = fx.pager
          /\ origin = fx.origin
    /\ bt = "open"
    /\ pc = "idle"
    /\ op = NoOp
    /\ rc = "CHIDB_OK"
    /\ out = NoOut
    /\ loc = NoLoc
    /\ hist = {}
    /\ node = << >>
    /\ mem = NoMem

NextFind ==
    \/ \E nroot \in origin.roots, key \in FindKeys : FindStart(nroot, key)
    \/ FindStep
    \/ Return
    \/ \E npage \in 1..pager.n_pages, k \in 0..(MaxKey + 1) : GetCell(npage, k)

SpecFind == InitFind /\ [][NextFind]_vars

LeafTree == [leaf |-> TRUE, keys |-> SortedSeq(TableKeys), kids |-> << >>]

\* an index over the table leaf of page 1 whose entries refer to keys that
\* are index keys themselves: (2, 2), and (4, 6) with (6, 4)
LoopFixture ==
    LET leaf == [leaf |-> TRUE, keys |-> SortedSeq(TableKeys), kids |-> << >>]
        pg1 == WriteNodes(FreshPager, Layout(leaf, 1), 1, 1)
        idx == [type |-> PGTYPE_INDEX_LEAF,
                cells |-> << IndexLeafCell(2, 2), IndexLeafCell(4, 6),
                             IndexLeafCell(6, 4) >>,
                right_page |-> 0]
    IN  [pager |-> WriteNodes(pg1, << idx >>, 1, 2),
         origin |-> [kind |-> "index", roots |-> {1, 2}, table |-> 1,
                     index |-> 2, keys |-> TableKeys, idx |-> { << 2, 2 >>, << 4, 6 >>,
                                                        << 6, 4 >> },
                     emptyint |-> FALSE]]

\* a find that was started goes on: the loop of find runs on the caller's
\* thread until it returns
InitFindFair ==
    /\ \E fx \in IndexFixtures \cup {LoopFixture, TableFixture(LeafTree, 2)} :
          /\ pager = fx.pager
          /\ origin = fx.origin
    /\ bt = "open"
    /\ pc = "idle"
    /\ op = NoOp
    /\ rc = "CHIDB_OK"
    /\ out = NoOut
    /\ loc = NoLoc
    /\ hist = {}
    /\ node = << >>
    /\ mem = NoMem

SpecFindFair == InitFindFair /\ [][NextFind]_vars /\ WF_vars(FindStep)

(***************************************************************************)
(* The inserts.  chidb_Btree_insert, chidb_Btree_insertNonFull and         *)
(* chidb_Btree_split have the body `return CHIDB_OK;'.                     *)
(***************************************************************************)
chidb_Btree_split(pg, npage_parent, npage_child, parent_ncell) ==
    [rc |-> "CHIDB_OK", pager |-> pg]

chidb_Btree_insertNonFull(pg, npage, btc) == [rc |-> "CHIDB_OK", pager |-> pg]

chidb_Btree_insert(pg, nroot, btc) == [rc |-> "CHIDB_OK", pager |-> pg]

chidb_Btree_insertInTable(pg, nroot, key, data, size) ==
    LET btc == [type |-> PGTYPE_TABLE_LEAF, key |-> key, w0 |-> size,
                w1 |-> 0, data |-> CallerPtr(data)]
    IN  chidb_Btree_insert(pg, nroot, btc)

\* the cell is built with the tag FLAG_INDEX; the members that the
\* initialiser does not name are zero.  btc is the cell handed to insert
chidb_Btree_insertInIndex(pg, nroot, keyIdx, keyPk) ==
    LET btc == [type |-> FLAG_INDEX, key |-> keyIdx, w0 |-> keyPk,
                w1 |-> 0, data |-> NullPtr]
        r == chidb_Btree_insert(pg, nroot, btc)
    IN  [rc |-> r.rc, pager |-> r.pager, btc |-> btc]

InsertKeys == TableKeys \cup {1, 2 * MaxKey + 1}

InsertInTable(nroot, key, data) ==
    /\ bt = "open"
    /\ pc = "idle"
    /\ Cardinality(hist) < MaxInserts
    /\ LET r == chidb_Btree_insertInTable(pager, nroot, key, data, Len(data))
           this == [NoOp EXCEPT !.name = "insert_in_table", !.nroot = nroot,
                                !.key = key, !.data = data]
       IN  /\ rc' = r.rc
           /\ pager' = r.pager
           /\ op' = this
           /\ hist' = IF r.rc = "CHIDB_OK" THEN hist \cup {this} ELSE hist
    /\ pc' = "done"
    /\ out' = NoOut
    /\ UNCHANGED <<bt, loc, origin, node, mem>>

\* the file open creates, with an empty table leaf allocated on page 2
FreshFixture2 ==
    [pager |-> WriteNodeAt(FreshPager, 2,
                  [type |-> PGTYPE_TABLE_LEAF, cells |-> << >>,
                   right_page |-> 0]),
     origin |-> [kind |-> "fresh", roots |-> {1, 2}, table |-> 2, index |-> 0,
                 keys |-> {}, idx |-> {}, emptyint |-> FALSE]]

InitInsert ==
    /\ \E fx \in {FreshFixture, FreshFixture2, FullFixture,
                  TableFixture(LeafTree, 1), TableFixture(LeafTree, 2)} :
          /\ pager = fx.pager
          /\ origin = fx.origin
    /\ bt = "open"
    /\ pc = "idle"
    /\ op = NoOp
    /\ rc = "CHIDB_OK"
    /\ out = NoOut
    /\ loc = NoLoc
    /\ hist = {}
    /\ node = << >>
    /\ mem = NoMem

NextInsert ==
    \/ \E key \in InsertKeys, alt \in BOOLEAN :
          InsertInTable(origin.table, key, IF alt THEN << 7 >> ELSE Payload(key))
    \/ \E key \in InsertKeys : FindStart(origin.table, key)
    \/ FindStep
    \/ Return

SpecInsert == InitInsert /\ [][NextInsert]_vars

(***************************************************************************)
(* The node interface: a caller makes nodes with newNode / initEmptyNode,  *)
(* loads one with getNodeByPage, inserts cells into it and writes it.      *)
(***************************************************************************)
NodeTypes ==
    {PGTYPE_TABLE_INTERNAL, PGTYPE_TABLE_LEAF,
     PGTYPE_INDEX_INTERNAL, PGTYPE_INDEX_LEAF}

\* what the caller has to guarantee to insertCell: the ordinal is in range
\* and the cell and its offset-array entry fit into the free region
InsertPre(btn, ncell, cell) ==
    /\ ncell <= btn.n_cells
    /\ getCellSize(cell) + 2 <= btn.cells_offset - btn.free_offset

LongPayload(n) == [i \in 1..n |-> 1 + (i % 100)]

\* the values of the word that getCellSize adds to the fixed size: a small
\* one under either key, the largest that still fits into the node under
\* the first key, and the first that does not fit under the second
SizeWords(btn, fixed, small) ==
    LET fit == btn.cells_offset - btn.free_offset - 2 - fixed
    IN  { << key, small >> : key \in {1, 3} }
        \cup (IF fit >= 0 /\ fit < DEFAULT_PAGE_SIZE
              THEN { << 1, fit >>, << 3, fit + 1 >> } ELSE {})

\* the cells of the variant of the node that the caller inserts
NodeCells(btn) ==
    IF btn.type = PGTYPE_TABLE_LEAF THEN
        { TableLeafCell(w[1], IF w[2] = 2 THEN Payload(w[1])
                              ELSE LongPayload(w[2])) :
            w \in SizeWords(btn, TABLELEAFCELL_SIZE_WITHOUTDATA, 2) }
    ELSE IF btn.type = PGTYPE_TABLE_INTERNAL THEN
        { TableInternalCell(w[1], w[2]) :
            w \in SizeWords(btn, TABLEINTCELL_SIZE, 2) }
    ELSE IF btn.type = PGTYPE_INDEX_LEAF THEN
        { IndexLeafCell(4 * w[1] + 2, w[2]) :
            w \in SizeWords(btn, INDEXLEAFCELL_SIZE, 4) }
    ELSE IF btn.type = PGTYPE_INDEX_INTERNAL THEN
        { IndexInternalCell(4 * key + 2, 2 * key, 3) : key \in {1, 3} }
    ELSE {}

\* insertInIndex builds its cell and hands it to insert
InsertInIndex(nroot, keyIdx, keyPk) ==
    /\ bt = "open"
    /\ pc = "idle"
    /\ LET r == chidb_Btree_insertInIndex(pager, nroot, keyIdx, keyPk)
       IN  /\ rc' = r.rc
           /\ pager' = r.pager
           /\ op' = [NoOp EXCEPT !.name = "insert_in_index", !.nroot = nroot,
                                 !.key = keyIdx, !.k = keyPk, !.cell = r.btc]
    /\ pc' = "done"
    /\ out' = NoOut
    /\ UNCHANGED <<bt, loc, hist, origin, node, mem>>

NewNode(type, junk) ==
    /\ pc = "idle"
    /\ node = << >>
    /\ pager.n_pages = FreshPager.n_pages
    /\ LET r == chidb_Btree_newNode(pager, type, junk)
       IN  /\ rc' = r.rc
           /\ pager' = r.pager
           /\ op' = [NoOp EXCEPT !.name = "new_node", !.nroot = r.npage,
                                 !.k = type]
    /\ pc' = "done"
    /\ out' = NoOut
    /\ UNCHANGED <<bt, loc, hist, origin, node, mem>>

InitEmptyNode(npage, type) ==
    /\ pc = "idle"
    /\ node = << >>
    /\ LET r == chidb_Btree_initEmptyNode(pager, npage, type)
       IN  /\ rc' = r.rc
           /\ pager' = r.pager
    /\ op' = [NoOp EXCEPT !.name = "init_empty", !.nroot = npage, !.k = type]
    /\ pc' = "done"
    /\ out' = NoOut
    /\ UNCHANGED <<bt, loc, hist, origin, node, mem>>

GetNodeByPage(npage, junk) ==
    /\ pc = "idle"
    /\ node = << >>
    /\ LET r == chidb_Btree_getNodeByPage(pager, npage, junk)
       IN  /\ rc' = r.rc
           /\ node' = r.btn
           /\ pager' = r.pager
    /\ op' = [NoOp EXCEPT !.name = "get_node", !.nroot = npage]
    /\ pc' = "done"
    /\ out' = NoOut
    /\ UNCHANGED <<bt, loc, hist, origin, mem>>

FreeMemNode ==
    /\ pc = "idle"
    /\ node # << >>
    /\ LET r == chidb_Btree_freeMemNode(pager, node[1])
       IN  /\ rc' = r.rc
           /\ pager' = r.pager
    /\ node' = << >>
    /\ op' = [NoOp EXCEPT !.name = "free_node", !.nroot = node[1].page.npage]
    /\ pc' = "done"
    /\ out' = NoOut
    /\ UNCHANGED <<bt, loc, hist, origin, mem>>

InsertCell(ncell, cell) ==
    /\ pc = "idle"
    /\ node # << >>
    /\ node[1].n_cells < MaxNodeCells
    /\ LET r == chidb_Btree_insertCell(node[1], ncell, cell)
           pre == InsertPre(node[1], ncell, cell)
       IN  /\ rc' = r.rc
           /\ node' = << r.btn >>
           /\ op' = [NoOp EXCEPT !.name = "insert_cell",
                                 !.nroot = node[1].page.npage,
                                 !.k = ncell, !.cell = cell, !.pre = pre]
           /\ hist' = IF r.rc = "CHIDB_OK"
                      THEN hist \cup {[NoOp EXCEPT !.name = "insert_cell",
                                                   !.pre = pre]}
                      ELSE hist
    /\ pc' = "done"
    /\ out' = NoOut
    /\ UNCHANGED <<pager, bt, loc, origin, mem>>

WriteNode ==
    /\ pc = "idle"
    /\ node # << >>
    /\ LET r == chidb_Btree_writeNode(pager, node[1])
       IN  /\ rc' = r.rc
           /\ pager' = r.pager
    /\ op' = [NoOp EXCEPT !.name = "write_node", !.nroot = node[1].page.npage]
    /\ pc' = "done"
    /\ out' = NoOut
    /\ UNCHANGED <<bt, loc, hist, origin, node, mem>>

\* the file that open created with an empty node of a variant on page 1,
\* or on a new page 2
NodeFixture(type, npage) ==
    [pager |-> IF npage = 1
               THEN chidb_Btree_initEmptyNode(FreshPager, 1, type).pager
               ELSE chidb_Btree_newNode(FreshPager, type, 0).pager,
     origin |-> [FreshFixture.origin EXCEPT !.kind = "node"]]

NodeFixtures == { NodeFixture(type, npage) : type \in NodeTypes, npage \in 1..2 }

StartWith(fixtures) ==
    /\ \E fx \in fixtures :
          /\ pager = fx.pager
          /\ origin = fx.origin
    /\ bt = "open"
    /\ pc = "idle"
    /\ op = NoOp
    /\ rc = "CHIDB_OK"
    /\ out = NoOut
    /\ loc = NoLoc
    /\ hist = {}
    /\ node = << >>
    /\ mem = NoMem

\* a node of the file is loaded, cells are inserted into it, it is written
InitNode == StartWith(NodeFixtures \cup {IndexFixture("internal")})

NextNode ==
    \/ \E npage \in 0..pager.n_pages, junk \in Uninit :
          GetNodeByPage(npage, junk)
    \* the cells include the one that insertInIndex builds, which a caller
    \* that implements insert passes on to insertCell at an index leaf
    \/ \E ncell \in 0..(MaxNodeCells + 1) :
          \E cell \in (IF node = << >> THEN {}
                       ELSE NodeCells(node[1]) \cup
                            (IF node[1].type = PGTYPE_INDEX_LEAF
                             THEN { chidb_Btree_insertInIndex(FreshPager, 2,
                                                              6, 2).btc }
                             ELSE {})) :
              InsertCell(ncell, cell)
    \/ WriteNode
    \/ \E nroot \in origin.roots : InsertInIndex(nroot, 6, 2)
    \/ Return

SpecNode == InitNode /\ [][NextNode]_vars

\* nodes are made in the file that open created, loaded and written
InitMake == StartWith({FreshFixture})

NextMake ==
    \/ \E type \in NodeTypes, junk \in 0..1 : NewNode(type, junk)
    \/ \E npage \in 0..pager.n_pages, type \in NodeTypes :
          InitEmptyNode(npage, type)
    \/ \E npage \in 0..pager.n_pages, junk \in Uninit :
          GetNodeByPage(npage, junk)
    \/ WriteNode
    \/ Return

SpecMake == InitMake /\ [][NextMake]_vars

\* page 1 of a file that open created, empty or with the cells of a table
\* leaf in it, is initialised, and then loaded, filled, stored and released
\* over and over

NextPage1 ==
    \/ \E type \in NodeTypes : hist = {} /\ InitEmptyNode(1, type)
    \/ \E junk \in Uninit : GetNodeByPage(1, junk)
    \/ \E ncell \in 0..MaxNodeCells :
          \E cell \in (IF node = << >> THEN {} ELSE NodeCells(node[1])) :
              InsertPre(node[1], ncell, cell) /\ InsertCell(ncell, cell)
    \/ WriteNode
    \/ FreeMemNode
    \/ Return

SpecPage1 ==
    /\ StartWith({FreshFixture, TableFixture(LeafTree, 1), FullFixture})
    /\ [][NextPage1]_vars

\* the same calls on a file on which a call of the pager fails
InitFault ==
    StartWith({ [FreshFixture EXCEPT !.pager.fault = fault] :
                  fault \in {"none", "write", "allocate"} })

SpecFault == InitFault /\ [][NextMake]_vars

(***************************************************************************)
(* Properties.                                                             *)
(***************************************************************************)
Header(f) == SubSeq(f, 1, CHIDB_FILE_HEADER_LEN)

InsertedAs(h) ==
    /\ h.name = "insert_in_table"
    /\ h.nroot = op.nroot
    /\ h.key = op.key

FindDone == op.name = "find" /\ pc = "done"

\* C1: on a freshly created database, insert_in_table(root, key, data, size)
\* followed by find(root, key) returns OK with exactly the inserted size and
\* payload bytes, the root being page 1 or another table root page.
C1_InsertThenFind ==
    (FindDone /\ origin.kind = "fresh") =>
        \A h \in hist :
            (hist = {h} /\ InsertedAs(h)) =>
                /\ rc = "CHIDB_OK"
                /\ out.set
                /\ out.size = Len(h.data)
                /\ out.data = h.data

\* C2: for every well-formed table B-tree and every key stored in one of its
\* leaves, find(root, key) returns OK with a copy of the payload of the key
\* and its length.
C2_FindReturnsStoredPayload ==
    (FindDone /\ origin.kind = "table" /\ op.nroot = origin.table
     /\ op.key \in origin.keys) =>
        /\ rc = "CHIDB_OK"
        /\ out.set
        /\ out.size = Len(Payload(op.key))
        /\ out.data = Payload(op.key)

\* the keys stored in the leaves of the table tree rooted at a page
KeysUnder(nroot) == IF nroot = origin.table THEN origin.keys ELSE {}

\* C3: find on a table tree returns NOT_FOUND whenever the key is stored in
\* no leaf of the tree, also when the root is an empty leaf, and then no
\* payload is returned.
C3_FindAbsentKey ==
    (FindDone /\ op.nroot # origin.index /\ op.key \notin KeysUnder(op.nroot)) =>
        /\ rc = "CHIDB_ENOTFOUND"
        /\ ~out.set

C3_Witness ==
    /\ FindDone
    /\ origin.kind = "table"
    /\ op.nroot = origin.table
    /\ op.key \notin origin.keys
    /\ op.key > 2 /\ op.key < 2 * MaxKey
    /\ rc = "CHIDB_ENOTFOUND"

\* C4: find started on an index tree with a key that matches an index cell
\* goes on with the keyPk of the cell in the table tree and returns the
\* payload stored under that primary key.
C4_IndexLookup ==
    (FindDone /\ origin.kind = "index" /\ op.nroot = origin.index
     /\ op.key \in IndexKeys) =>
        /\ rc = "CHIDB_OK"
        /\ out.set
        /\ out.size = Len(Payload(IndexPk(op.key)))
        /\ out.data = Payload(IndexPk(op.key))

\* C5: insert_in_table with a key that already exists in the tree returns
\* DUPLICATE and leaves the file byte-identical.
C5_DuplicateRejected ==
    [][(pc = "idle" /\ pc' = "done" /\ op'.name = "insert_in_table"
        /\ op'.nroot = origin.table /\ op'.key \in origin.keys) =>
            (rc' = "CHIDB_EDUPLICATE" /\ pager'.f = pager.f)]_vars

\* the tag of the node on a page of the file
TagOf(npage) ==
    pager.f[(npage - 1) * pager.page_size + getHeaderOffset(npage)
            + PGHEADER_PGTYPE_OFFSET + 1]

\* C6: after any sequence of inserts, also one that meets a full root, the
\* tree is rooted at the same page, the full root has become an internal
\* node, and find from the root returns the data of every key inserted.
C6_InsertedKeysFound ==
    /\ FindDone =>
          \A h \in hist :
              (/\ InsertedAs(h)
               /\ h.key \notin origin.keys
               /\ \A g \in hist : g.key = h.key => g = h) =>
                  /\ rc = "CHIDB_OK"
                  /\ out.set
                  /\ out.size = Len(h.data)
                  /\ out.data = h.data
    /\ (origin.kind = "full" /\ \E h \in hist : h.key \notin origin.keys) =>
          TagOf(origin.table) = PGTYPE_TABLE_INTERNAL

\* C7: open on a file that does not exist or has no bytes returns OK and
\* leaves a file of one page: the 100-byte header with the magic, page size
\* 1024 and the fixed constants, which verification accepts, then at byte 100
\* the header of an empty table leaf; closing and opening it again returns OK.
C7_OpenCreatesDatabase ==
    (origin.kind = "nofile" /\ bt # "null") =>
        /\ (op.name = "open" /\ pc = "done") => (rc = "CHIDB_OK" /\ bt = "open")
        /\ Len(pager.f) = 1024
        /\ SubSeq(pager.f, 1, 16) = Magic
        /\ SubSeq(pager.f, 17, 24) = << 4, 0, 1, 1, 0, 64, 32, 32 >>
        /\ SubSeq(pager.f, 25, 28) = << 0, 0, 0, 0 >>
        /\ SubSeq(pager.f, 33, 44) = << 0, 0, 0, 0, 0, 0, 0, 0, 0, 0, 0, 0 >>
        /\ SubSeq(pager.f, 45, 52) = << 0, 0, 0, 1, 0, 0, 78, 32 >>
        /\ SubSeq(pager.f, 53, 68)
             = << 0, 0, 0, 0, 0, 0, 0, 1, 0, 0, 0, 0, 0, 0, 0, 0 >>
        /\ verifyHeader(Header(pager.f)) = "CHIDB_OK"
        /\ pager.f[100 + PGHEADER_PGTYPE_OFFSET + 1] = 13
        /\ SubSeq(pager.f, 100 + PGHEADER_NCELLS_OFFSET + 1,
                  100 + PGHEADER_NCELLS_OFFSET + 2) = << 0, 0 >>
        /\ SubSeq(pager.f, 100 + PGHEADER_CELL_OFFSET + 1,
                  100 + PGHEADER_CELL_OFFSET + 2) = << 4, 0 >>
        /\ SubSeq(pager.f, 100 + PGHEADER_FREE_OFFSET + 1,
                  100 + PGHEADER_FREE_OFFSET + 2)
             = << 0, 100 + LEAFPG_CELLSOFFSET_OFFSET >>

C7_Witness ==
    /\ origin.kind = "nofile"
    /\ op.name = "open" /\ pc = "done"
    /\ rc = "CHIDB_OK"
    /\ \E h \in hist : h.name = "close"

\* the magic and every fixed field of a header have their required values
RequiredFields(h) ==
    /\ SubSeq(h, 1, 16) = Magic
    /\ SubSeq(h, 19, 24) = << 1, 1, 0, 64, 32, 32 >>
    /\ SubSeq(h, 33, 40) = << 0, 0, 0, 0, 0, 0, 0, 0 >>
    /\ SubSeq(h, 45, 60) = << 0, 0, 0, 1, 0, 0, 78, 32, 0, 0, 0, 0, 0, 0, 0, 1 >>
    /\ SubSeq(h, 65, 68) = << 0, 0, 0, 0 >>

\* a header with the byte v in every byte of the words at 24, 40 and 60
WithSkippedWords(h, v) ==
    WriteBytes(WriteBytes(WriteBytes(h, 24, << v, v, v, v >>),
                          40, << v, v, v, v >>), 60, << v, v, v, v >>)

\* C8: header verification returns OK if and only if the magic and every
\* fixed field have their required values, whatever the words at offsets 24,
\* 40 and 60 hold; open on an existing file returns CORRUPT_HEADER exactly
\* when verification fails.
C8_HeaderVerification ==
    origin.kind = "header" =>
        LET h == Header(pager.f)
        IN  /\ verifyHeader(h) = "CHIDB_OK" <=> RequiredFields(h)
            /\ \A v \in ByteValues :
                  verifyHeader(WithSkippedWords(h, v)) = verifyHeader(h)
            /\ (op.name = "open" /\ pc = "done") =>
                  /\ rc = "CHIDB_ECORRUPTHEADER" <=> ~RequiredFields(h)
                  /\ rc = "CHIDB_OK" <=> RequiredFields(h)

\* open has refused a file in which one byte of the magic is changed
C8_Witness ==
    /\ origin.kind = "header"
    /\ op.name = "open" /\ pc = "done"
    /\ rc = "CHIDB_ECORRUPTHEADER"
    /\ \E i \in 1..16 :
          /\ pager.f[i] # Magic[i]
          /\ RequiredFields(WriteBytes(Header(pager.f), i - 1, << Magic[i] >>))

\* C9: open on an existing file whose header verifies returns OK, sets the
\* page size of the pager to the big-endian 16-bit value at header bytes
\* 16-17, and neither allocates nor writes a page.
C9_OpenExisting ==
    [][(pc = "idle" /\ pc' = "done" /\ op'.name = "open"
        /\ Len(pager.f) >= CHIDB_FILE_HEADER_LEN
        /\ verifyHeader(Header(pager.f)) = "CHIDB_OK") =>
            /\ rc' = "CHIDB_OK"
            /\ bt' = "open"
            /\ pager'.page_size = 256 * pager.f[17] + pager.f[18]
            /\ pager'.f = pager.f
            /\ pager'.n_pages * pager'.page_size <= Len(pager.f)]_vars

C9_Witness ==
    /\ origin.kind = "header"
    /\ op.name = "open" /\ pc = "done"
    /\ rc = "CHIDB_OK"
    /\ pager.page_size = 256 * pager.f[17] + pager.f[18]
    /\ pager.page_size # DEFAULT_PAGE_SIZE

\* n_cells as the header of the node on a page has it
NCellsOf(npage) ==
    LET h == (npage - 1) * pager.page_size + getHeaderOffset(npage)
             + PGHEADER_NCELLS_OFFSET
    IN  256 * pager.f[h + 1] + pager.f[h + 2]

\* C10: get_cell(node, k) returns CELLNO for every k >= n_cells, without
\* decoding a cell, and OK for every k < n_cells.
C10_GetCellBounds ==
    (op.name = "get_cell" /\ pc = "done") =>
        /\ op.k >= NCellsOf(op.nroot) =>
              (rc = "CHIDB_ECELLNO" /\ out.cell = UninitCell(0))
        /\ op.k < NCellsOf(op.nroot) => rc = "CHIDB_OK"

C10_Witness ==
    /\ op.name = "get_cell" /\ pc = "done"
    /\ NCellsOf(op.nroot) > 0
    /\ op.k = NCellsOf(op.nroot)
    /\ rc = "CHIDB_ECELLNO"

\* a call of insertCell has just returned: node is the node before the call
\* and node' the node after it
InsertCellStep == pc = "idle" /\ op'.name = "insert_cell"

\* C11: insert_cell(node, k, cell) with k > n_cells returns CELLNO and
\* changes nothing of the node (n_cells, free_offset, cells_offset, offset
\* array, cell area); with k <= n_cells it is not rejected as CELLNO.
C11_InsertCellOrdinal ==
    [][InsertCellStep =>
         IF op'.k > node[1].n_cells
         THEN rc' = "CHIDB_ECELLNO" /\ node' = node
         ELSE rc' # "CHIDB_ECELLNO"]_vars

C11_Witness ==
    /\ op.name = "insert_cell" /\ pc = "done"
    /\ node[1].n_cells > 0
    /\ op.k = node[1].n_cells + 1
    /\ rc = "CHIDB_ECELLNO"

\* C12: a successful insert_cell(node, k, cell) decreases cells_offset by
\* exactly size_of(cell), serialises the cell at the new cells_offset, stores
\* the new cells_offset in offset-array entry k, increases n_cells by 1 and
\* free_offset by 2.
C12_InsertCellEffect ==
    [][(InsertCellStep /\ rc' = "CHIDB_OK") =>
         LET b == node[1]
             a == node'[1]
         IN  /\ a.cells_offset = b.cells_offset - getCellSize(op'.cell)
             /\ unpackBTC(a.page.data, a.cells_offset, op'.cell) = a.page.data
             /\ get2byte(a.page.data, a.celloffset_array + 2 * op'.k, 0)
                  = a.cells_offset
             /\ a.n_cells = b.n_cells + 1
             /\ a.free_offset = b.free_offset + 2]_vars

\* what get_cell returns for ordinal j of a node: the fields of the cell,
\* and the payload its data pointer refers to
CellValue(btn, j) ==
    LET c == chidb_Btree_getCell(btn, j, UninitCell(0), 0).cell
    IN  [type |-> c.type, key |-> c.key, w0 |-> c.w0, w1 |-> c.w1,
         payload |-> IF c.type = PGTYPE_TABLE_LEAF
                     THEN Deref(c.data, btn.page, c.w0, 0) ELSE << >>]

\* the fields of its variant that the caller gave a cell
GivenValue(c) ==
    [type |-> c.type, key |-> c.key, w0 |-> c.w0,
     w1 |-> IF c.type = PGTYPE_INDEX_INTERNAL THEN c.w1 ELSE 0,
     payload |-> IF c.type = PGTYPE_TABLE_LEAF
                 THEN Deref(c.data, [npage |-> 0, data |-> << >>], c.w0, 0)
                 ELSE << >>]

\* the bytes of the cell of ordinal j of node b, where they are in data
StoredCellBytes(b, j, data) ==
    LET off == get2byte(b.page.data, b.celloffset_array + 2 * j, 0)
        c == CellValue(b, j)
        len == IF c.type = PGTYPE_TABLE_LEAF
                 THEN TABLELEAFCELL_SIZE_WITHOUTDATA + c.w0
               ELSE IF c.type = PGTYPE_TABLE_INTERNAL THEN TABLEINTCELL_SIZE
               ELSE IF c.type = PGTYPE_INDEX_INTERNAL THEN INDEXINTCELL_SIZE
               ELSE INDEXLEAFCELL_SIZE
    IN  ReadBytes(data, off, len, 0)

\* C13: after a successful insert_cell(node, k, cell) on a node of n cells,
\* get_cell(j) returns the same cell as before for j < k, the inserted cell
\* for j = k and the cell formerly at j-1 for k < j <= n, and the stored
\* bytes of the cells that were there are not modified.
C13_InsertCellShift ==
    [][(InsertCellStep /\ rc' = "CHIDB_OK") =>
         LET b == node[1]
             a == node'[1]
             k == op'.k
         IN  /\ \A j \in 0..(b.n_cells - 1) :
                    /\ j < k => CellValue(a, j) = CellValue(b, j)
                    /\ j >= k => CellValue(a, j + 1) = CellValue(b, j)
                    /\ StoredCellBytes(b, j, a.page.data)
                         = StoredCellBytes(b, j, b.page.data)
             /\ CellValue(a, k) = GivenValue(op'.cell)]_vars

\* C14: for each of the four cell variants, a cell written into a node of
\* its variant with insert_cell and read back with get_cell at the same
\* ordinal has the same type, key and variant fields.
C14_CellRoundTrip ==
    [][(InsertCellStep /\ rc' = "CHIDB_OK"
        /\ op'.cell.type = node[1].type /\ op'.cell.type \in NodeTypes) =>
         LET c == chidb_Btree_getCell(node'[1], op'.k, UninitCell(0), 0).cell
             g == op'.cell
         IN  /\ c.type = g.type
             /\ c.key = g.key
             /\ g.type = PGTYPE_TABLE_INTERNAL =>
                   tableInternal_child_page(c) = tableInternal_child_page(g)
             /\ g.type = PGTYPE_TABLE_LEAF =>
                   /\ tableLeaf_data_size(c) = tableLeaf_data_size(g)
                   /\ Deref(tableLeaf_data(c), node'[1].page,
                            tableLeaf_data_size(g), 0) = g.data.bytes
             /\ g.type = PGTYPE_INDEX_INTERNAL =>
                   /\ indexInternal_keyPk(c) = indexInternal_keyPk(g)
                   /\ indexInternal_child_page(c) = indexInternal_child_page(g)
             /\ g.type = PGTYPE_INDEX_LEAF =>
                   indexLeaf_keyPk(c) = indexLeaf_keyPk(g)]_vars

\* C17: insert_cell on a node that is full for the cell (the free region is
\* smaller than size_of(cell) + 2) is reported as CELLNO or a bounds error
\* and writes nothing.
C17_FullNodeReported ==
    [][(InsertCellStep /\ op'.k <= node[1].n_cells
        /\ node[1].cells_offset - node[1].free_offset
             < getCellSize(op'.cell) + 2) =>
         (rc' # "CHIDB_OK" /\ node' = node)]_vars

\* C15: for every node variant and every page holding a well-formed node,
\* loading the page into a node view and storing the unmodified view leaves
\* every byte of the page unchanged, and storing a view then loading it
\* yields the same tag, free_offset, n_cells, cells_offset and, for internal
\* nodes, right_page.
C15_NodeRoundTrip ==
    [][(pc = "idle" /\ op'.name = "write_node") =>
         LET b == node[1]
             l == chidb_Btree_getNodeByPage(pager', b.page.npage, 0).btn[1]
         IN  /\ (\E junk \in Uninit :
                    node = chidb_Btree_getNodeByPage(pager, b.page.npage,
                                                     junk).btn)
                  => pager'.f = pager.f
             /\ l.type = b.type
             /\ l.free_offset = b.free_offset
             /\ l.n_cells = b.n_cells
             /\ l.cells_offset = b.cells_offset
             /\ BitAnd(b.type, FLAG_LEAF) = 0 => l.right_page = b.right_page]_vars

\* an internal node with cells and a right page was loaded and stored
C15_Witness ==
    /\ op.name = "write_node" /\ pc = "done"
    /\ node = chidb_Btree_getNodeByPage(pager, op.nroot, 0).btn
    /\ node[1].type = PGTYPE_INDEX_INTERNAL
    /\ node[1].n_cells > 0
    /\ node[1].right_page > 0

\* where the header of the node ends and its offset array begins
HeaderEnd(btn) ==
    getHeaderOffset(btn.page.npage)
    + (IF BitAnd(btn.type, FLAG_LEAF) # 0 THEN LEAFPG_CELLSOFFSET_OFFSET
       ELSE INTPG_CELLSOFFSET_OFFSET)

C18_SizeOfCell ==
    (op.name = "insert_cell" /\ pc = "done") =>
        getCellSize(op.cell) =
            IF op.cell.type = PGTYPE_TABLE_LEAF
              THEN TABLELEAFCELL_SIZE_WITHOUTDATA + Len(op.cell.data.bytes)
            ELSE IF op.cell.type = PGTYPE_TABLE_INTERNAL THEN TABLEINTCELL_SIZE
            ELSE IF op.cell.type = PGTYPE_INDEX_INTERNAL THEN INDEXINTCELL_SIZE
            ELSE INDEXLEAFCELL_SIZE

\* a call of newNode or initEmptyNode has returned; op.nroot is the page
\* and op.k the tag
MadeNode == op.name \in {"new_node", "init_empty"} /\ pc = "done"

\* the big-endian 16-bit value at an offset of the file
FileWord(off) == 256 * pager.f[off + 1] + pager.f[off + 2]

\* C19: after new_node(tag) or init_empty(npage, tag) returns OK for any of
\* the four tags, the page holds a node with that tag, n_cells = 0,
\* cells_offset = page size and free_offset = (100 on page 1, else 0) + the
\* header length of the variant, and right_page of an internal node is 0.
C19_EmptyNodeFields ==
    (MadeNode /\ rc = "CHIDB_OK") =>
        LET skip == IF op.nroot = 1 THEN 100 ELSE 0
            head == (op.nroot - 1) * pager.page_size + skip
            internal == op.k \in {PGTYPE_TABLE_INTERNAL, PGTYPE_INDEX_INTERNAL}
        IN  /\ pager.f[head + PGHEADER_PGTYPE_OFFSET + 1] = op.k
            /\ FileWord(head + PGHEADER_NCELLS_OFFSET) = 0
            /\ FileWord(head + PGHEADER_CELL_OFFSET) = pager.page_size
            /\ FileWord(head + PGHEADER_FREE_OFFSET)
                 = skip + (IF internal THEN 12 ELSE 8)
            /\ internal =>
                  SubSeq(pager.f, head + PGHEADER_RIGHTPG_OFFSET + 1,
                         head + PGHEADER_RIGHTPG_OFFSET + 4) = << 0, 0, 0, 0 >>
            /\ LET l == chidb_Btree_getNodeByPage(pager, op.nroot, 0).btn[1]
               IN  /\ l.type = op.k
                   /\ l.n_cells = 0
                   /\ l.cells_offset = pager.page_size
                   /\ l.free_offset = skip + (IF internal THEN 12 ELSE 8)

\* an internal node was initialised on page 1
C19_Witness ==
    /\ MadeNode /\ rc = "CHIDB_OK"
    /\ op.name = "init_empty"
    /\ op.nroot = 1
    /\ op.k = PGTYPE_INDEX_INTERNAL

\* C20: when a pager call fails during an engine operation (write_page
\* inside store_node or init_empty, allocate_page inside new_node), the
\* operation returns that failure and never reports OK for an operation
\* whose page write did not succeed.
C20_PagerFailureReturned ==
    /\ (op.name = "write_node" /\ pc = "done" /\ pager.fault = "write") =>
          rc = "CHIDB_EIO"
    /\ (MadeNode /\ pager.fault = "write" /\ op.nroot \in 1..pager.n_pages) =>
          rc = "CHIDB_EIO"
    /\ (MadeNode /\ op.name = "new_node" /\ pager.fault = "allocate") =>
          rc = "CHIDB_ENOMEM"

\* C23: loading a leaf node (TABLE_LEAF or INDEX_LEAF) always yields a node
\* view whose right_page is 0, whatever the page bytes are and whatever the
\* memory of the view held before; for an internal node right_page is the
\* value read at offset 8 of the node header.
C23_LeafRightPageZero ==
    (op.name = "get_node" /\ pc = "done" /\ rc = "CHIDB_OK") =>
        LET btn == node[1]
            h == getHeaderOffset(btn.page.npage)
        IN  IF BitAnd(btn.type, FLAG_LEAF) # 0
            THEN btn.right_page = 0
            ELSE btn.right_page
                   = get4byte(btn.page.data, h + PGHEADER_RIGHTPG_OFFSET, 0)

\* the node on the page that the running find is about to load
\* C25: at every internal node where the searched key is not matched, find
\* continues in the child page of cell k, k being the number of cells with
\* a smaller key, and in right_page when k = n_cells; at an internal node
\* with zero cells it continues in right_page.
C25_DescendAtInsertionIndex ==
    [][ LET btn == chidb_Btree_getNodeByPage(pager, loc.npage, 0).btn[1]
            \* the keys of the cells, in the order of the offset array
            keys == [i \in 1..btn.n_cells |->
                       chidb_Btree_getCell(btn, i - 1, UninitCell(0),
                                           0).cell.key]
            \* the insertion index: the number of cells with a smaller key
            k == Cardinality({ i \in 1..btn.n_cells : keys[i] < loc.key })
        IN
        (/\ pc = "find"
         /\ loc.npage \in 1..pager.n_pages
         /\ BitAnd(btn.type, FLAG_LEAF) = 0
         /\ \A i \in 1..btn.n_cells : keys[i] # loc.key) =>
              /\ pc' = "find"
              /\ loc'.key = loc.key
              /\ loc'.npage =
                    IF k = btn.n_cells THEN btn.right_page
                    ELSE LET c == chidb_Btree_getCell(btn, k, UninitCell(0),
                                                      0).cell
                         IN  IF BitAnd(btn.type, FLAG_TABLE) # 0
                             THEN tableInternal_child_page(c)
                             ELSE indexInternal_child_page(c)
      ]_vars

\* C27: insert_cell(node, k, cell) never stores a cell whose type tag
\* differs from node.type, and the cell that insert_in_index hands to
\* insert is an index-leaf cell, so that every cell of a node is decoded
\* in the layout it was written in.
C27_CellsOfNodeVariant ==
    /\ (op.name = "insert_cell" /\ pc = "done" /\ rc = "CHIDB_OK") =>
          op.cell.type = node[1].type
    /\ (op.name = "insert_in_index" /\ pc = "done") =>
          op.cell.type = PGTYPE_INDEX_LEAF

\* every insert_cell that succeeded so far satisfied its precondition
AllInsertsInPre == \A h \in hist : h.name = "insert_cell" => h.pre

C29_FindReadOnly ==
    [][ (pc = "find" \/ (pc = "idle" /\ op'.name = "find")) =>
            /\ pager'.f = pager.f
            /\ pager'.n_pages = pager.n_pages
            /\ pager'.page_size = pager.page_size ]_vars

\* find went down a table tree of three levels and returned a record
C29_Witness ==
    /\ op.name = "find" /\ pc = "done" /\ rc = "CHIDB_OK"
    /\ out.set
    /\ origin.kind = "table"
    /\ op.nroot = origin.table
    /\ loc.npage >= op.nroot + 2
    /\ BitAnd(TagOf(op.nroot + 1), FLAG_LEAF) = 0

\* C28: find terminates on every finite well-formed tree and every key: it
\* returns after finitely many node loads, also when it is started at the
\* root of an index tree, where a key match replaces the key by the keyPk
\* of the cell and restarts the descent at the same root.
C28_FindTerminates == (pc = "find") ~> (pc = "done")

(***************************************************************************)
(* Resources: open with each of its failures, close, find and init_empty   *)
(* on one pager.                                                           *)
(***************************************************************************)
\* no file and a file whose header open rejects (the first byte of the
\* magic is zeroed), not opened yet; and open files: the fresh one, also
\* with a pager whose writes fail, the indexes, and the table trees of a
\* root without cells or with the one cell of key 2 over leaves
InitRes ==
    /\ \/ /\ \E f \in {EmptyFile, WriteBytes(FreshPager.f, 0, << 0 >>)} :
                /\ pager = chidb_Pager_open(f)
                /\ origin = [kind |-> IF f = EmptyFile THEN "nofile"
                                      ELSE "header",
                             roots |-> {}, table |-> 0, index |-> 0,
                             keys |-> {}, idx |-> {}, emptyint |-> FALSE]
          /\ bt = "null"
       \/ /\ \E fx \in
                  {FreshFixture, [FreshFixture EXCEPT !.pager.fault = "write"],
                   IndexFixture("internal"), LoopFixture}
                  \cup { TableFixture(t, 2) :
                           t \in { u \in Gen(1, 2 * MaxKey + 1, MaxPages) :
                                     /\ ~u.leaf
                                     /\ u.keys \in {<< >>, << 2 >>}
                                     /\ \A i \in 1..Len(u.kids) :
                                           u.kids[i].leaf } } :
                /\ pager = fx.pager
                /\ origin = fx.origin
          /\ bt = "open"
    /\ pc = "idle"
    /\ op = NoOp
    /\ rc = "CHIDB_OK"
    /\ out = NoOut
    /\ loc = NoLoc
    /\ hist = {}
    /\ node = << >>
    /\ mem = NoMem

NextRes ==
    \/ \E fail \in {"none", "malloc", "pager", "allocate"}, junk \in Uninit :
          Open(fail, junk)
    \/ Close
    \/ \E nroot \in origin.roots, key \in FindKeys : FindStart(nroot, key)
    \/ FindStep
    \* init_empty is called on a file that has not been closed yet
    \/ /\ bt = "open"
       /\ hist = {}
       /\ \E npage \in 0..pager.n_pages,
             type \in {PGTYPE_TABLE_INTERNAL, PGTYPE_TABLE_LEAF} :
             InitEmptyNode(npage, type)
    \/ Return

SpecRes == InitRes /\ [][NextRes]_vars

\* C21: in find, init_empty and open, on success and on every error path,
\* each page obtained from the pager's read_page is released exactly once
\* before the operation returns (no page is held between the steps, none is
\* released that is not held), and find never holds two pages at once
C21_PagesReleasedOnce ==
    /\ pager.held = << >>
    /\ pager.stray = 0
    /\ pager.peak <= 1

\* a find that went down from the root and returned, an init_empty that
\* failed and an open that failed have happened with all pages returned
C21_Witness ==
    /\ pc = "done"
    /\ op.name = "find"
    /\ loc.npage # op.nroot
    /\ rc = "CHIDB_ENOTFOUND"
    /\ pager.peak = 1
    /\ pager.held = << >>

\* C26: on every failing path of open (handle allocation failure, pager
\* open failure, failure while creating page 1, corrupt header) the pager
\* is closed exactly once if and only if it had been opened, nothing that
\* is not a pager is closed, the handle memory is released exactly once,
\* and the caller's handle does not refer to released memory
C26_OpenFailureReleases ==
    (op.name = "open" /\ pc = "done" /\ rc # "CHIDB_OK") =>
        /\ mem.closes = (IF mem.opened THEN 1 ELSE 0)
        /\ mem.wild = 0
        /\ mem.frees = mem.handle
        /\ bt # "freed"

====
